---------------------------- MODULE Spec2Model ----------------------------
(***************************************************************************)
(* Model of the JSON Structure Validator of restructurer_math              *)
(* (src/src/restructurer_math/tools/json_validator_tool.py).               *)
(*                                                                         *)
(* Text is a sequence of one-character strings.  Python positions are kept *)
(* 0-based where the code computes with them (find / rfind return -1 for   *)
(* "absent"); scanning positions of the JSON decoder are 1-based indices   *)
(* of the next character to read.                                          *)
(***************************************************************************)
EXTENDS Integers, Sequences, FiniteSets, TLC

(***************************************************************************)
(* Bounds of the explored input space.                                     *)
(***************************************************************************)
MaxItems == 2

MaxLines == 2

MaxCalls == 2

\* the most pieces an answer handed to the extractor is written from
MaxParts == 2

(***************************************************************************)
(* Characters.                                                             *)
(***************************************************************************)
Whitespace == {" ", "\n", "\t", "\r", "\f"}

JsonWhitespace == {" ", "\t", "\n", "\r"}

Digits == <<"0", "1", "2", "3", "4", "5", "6", "7", "8", "9">>

UpperCase ==
    <<"A", "B", "C", "D", "E", "F", "G", "H", "I", "J", "K", "L", "M",
      "N", "O", "P", "Q", "R", "S", "T", "U", "V", "W", "X", "Y", "Z">>

LowerCase ==
    <<"a", "b", "c", "d", "e", "f", "g", "h", "i", "j", "k", "l", "m",
      "n", "o", "p", "q", "r", "s", "t", "u", "v", "w", "x", "y", "z">>

IsDigit(c) == \E i \in 1..10 : Digits[i] = c

DigitVal(c) == (CHOOSE i \in 1..10 : Digits[i] = c) - 1

DigitChar(d) == Digits[d + 1]

\* str.lower() on one character
LowerChar(c) ==
    IF \E i \in 1..26 : UpperCase[i] = c
    THEN LowerCase[CHOOSE i \in 1..26 : UpperCase[i] = c]
    ELSE c

\* str.lower()
Lower(s) == [i \in 1..Len(s) |-> LowerChar(s[i])]

(***************************************************************************)
(* Python string primitives.                                               *)
(***************************************************************************)
\* s[a:] with a >= 0
SliceFrom(s, a) == SubSeq(s, a + 1, Len(s))

\* s[:b] with b >= 0
SliceTo(s, b) == SubSeq(s, 1, IF b < Len(s) THEN b ELSE Len(s))

\* does pattern p occur in s at 1-based index i
MatchAt(s, p, i) ==
    /\ i >= 1
    /\ i + Len(p) - 1 <= Len(s)
    /\ \A j \in 1..Len(p) : s[i + j - 1] = p[j]

\* str.startswith
StartsWith(s, p) == MatchAt(s, p, 1)

\* p in s
Contains(s, p) == \E i \in 1..(Len(s) + 1) : MatchAt(s, p, i)

\* str.find(c) for a one-character c: 0-based index of the first c, or -1
Find(s, c) ==
    IF \E i \in 1..Len(s) : s[i] = c
    THEN (CHOOSE i \in 1..Len(s) : s[i] = c /\ \A j \in 1..(i - 1) : s[j] # c) - 1
    ELSE -1

\* str.rfind(c): 0-based index of the last c, or -1
RFind(s, c) ==
    IF \E i \in 1..Len(s) : s[i] = c
    THEN (CHOOSE i \in 1..Len(s) : s[i] = c /\ \A j \in (i + 1)..Len(s) : s[j] # c) - 1
    ELSE -1

\* builtin max of two integers
Max(a, b) == IF a >= b THEN a ELSE b

\* first 1-based index >= i of s whose character is not in cs (Len(s)+1 if none)
SkipChars(s, cs, i) ==
    IF \E j \in i..Len(s) : s[j] \notin cs
    THEN CHOOSE j \in i..Len(s) : s[j] \notin cs /\ \A k \in i..(j - 1) : s[k] \in cs
    ELSE Len(s) + 1

\* first 1-based index >= i of s whose character is in cs (Len(s)+1 if none)
FirstIn(s, cs, i) ==
    IF \E j \in i..Len(s) : s[j] \in cs
    THEN CHOOSE j \in i..Len(s) : s[j] \in cs /\ \A k \in i..(j - 1) : s[k] \notin cs
    ELSE Len(s) + 1

\* last 1-based index <= i of s whose character is not in cs (0 if none)
SkipCharsBack(s, cs, i) ==
    IF \E j \in 1..i : s[j] \notin cs
    THEN CHOOSE j \in 1..i : s[j] \notin cs /\ \A k \in (j + 1)..i : s[k] \in cs
    ELSE 0

\* str.strip(chars)
StripChars(s, cs) ==
    LET a == SkipChars(s, cs, 1)
        b == SkipCharsBack(s, cs, Len(s))
    IN  IF a > b THEN <<>> ELSE SubSeq(s, a, b)

\* str.rstrip(chars)
RStripChars(s, cs) == SubSeq(s, 1, SkipCharsBack(s, cs, Len(s)))

\* str.strip()
Strip(s) == StripChars(s, Whitespace)

\* str.split('\n')
RECURSIVE SplitLines(_)
SplitLines(s) ==
    IF Find(s, "\n") = -1 THEN <<s>>
    ELSE <<SliceTo(s, Find(s, "\n"))>> \o SplitLines(SliceFrom(s, Find(s, "\n") + 1))

\* re.sub(pat + r'\s*', '', s) for a literal pat: the leftmost match from i on
\* is deleted together with the whitespace after it, and the scan goes on
\* behind it
RECURSIVE ReSubFrom(_, _, _)
ReSubFrom(s, pat, i) ==
    IF \E m \in i..Len(s) : MatchAt(s, pat, m)
    THEN LET m == CHOOSE j \in i..Len(s) :
                      MatchAt(s, pat, j) /\ \A k \in i..(j - 1) : ~MatchAt(s, pat, k)
         IN  SubSeq(s, i, m - 1) \o ReSubFrom(s, pat, SkipChars(s, Whitespace, m + Len(pat)))
    ELSE SubSeq(s, i, Len(s))

ReSub(s, pat) == ReSubFrom(s, pat, 1)

(***************************************************************************)
(* String constants of the program.                                        *)
(***************************************************************************)
kQuestion ==
    <<"q", "u", "e", "s", "t", "i", "o", "n">>

kAnswer ==
    <<"a", "n", "s", "w", "e", "r">>

kDiagramOrEquation ==
    <<"d", "i", "a", "g", "r", "a", "m", "_", "o", "r", "_", "e", "q", "u", "a", "t", "i", "o", "n">>

kMarksAwarded ==
    <<"m", "a", "r", "k", "s", "_", "a", "w", "a", "r", "d", "e", "d">>

kMarks ==
    <<"m", "a", "r", "k", "s">>

kScore ==
    <<"s", "c", "o", "r", "e">>

kPoints ==
    <<"p", "o", "i", "n", "t", "s">>

kDiagram ==
    <<"d", "i", "a", "g", "r", "a", "m">>

qQuestion ==
    <<"\"", "q", "u", "e", "s", "t", "i", "o", "n", "\"">>

qAnswer ==
    <<"\"", "a", "n", "s", "w", "e", "r", "\"">>

qDiagramOrEquation ==
    <<"\"", "d", "i", "a", "g", "r", "a", "m", "_", "o", "r", "_", "e", "q", "u", "a", "t", "i", "o", "n", "\"">>

\* the backquote character (a TLA+ string literal cannot hold it)
BackQuote == "<backquote>"

FenceJson ==
    <<BackQuote, BackQuote, BackQuote, "j", "s", "o", "n">>

Fence ==
    <<BackQuote, BackQuote, BackQuote>>

sRestructure ==
    <<"r", "e", "s", "t", "r", "u", "c", "t", "u", "r", "e">>

sMarking ==
    <<"m", "a", "r", "k", "i", "n", "g">>

sErrorInProcessing ==
    <<"E", "r", "r", "o", "r", " ", "i", "n", " ", "p", "r", "o", "c", "e", "s", "s", "i", "n", "g">>

sProcessingError ==
    <<"P", "r", "o", "c", "e", "s", "s", "i", "n", "g", " ", "e", "r", "r", "o", "r", ":", " ">>

sUnknownOutputType ==
    <<"U", "n", "k", "n", "o", "w", "n", " ", "o", "u", "t", "p", "u", "t", "_", "t", "y", "p", "e", ":", " ">>

sOverflowMsg ==
    <<"c", "a", "n", "n", "o", "t", " ", "c", "o", "n", "v", "e", "r", "t", " ", "f", "l", "o", "a", "t", " ",
      "i", "n", "f", "i", "n", "i", "t", "y", " ", "t", "o", " ", "i", "n", "t", "e", "g", "e", "r">>

sNull == <<"n", "u", "l", "l">>

sTrue == <<"t", "r", "u", "e">>

sFalse == <<"f", "a", "l", "s", "e">>

sNaN == <<"N", "a", "N">>

sInfinity == <<"I", "n", "f", "i", "n", "i", "t", "y">>

sNegInfinity == <<"-", "I", "n", "f", "i", "n", "i", "t", "y">>

sPyNone == <<"N", "o", "n", "e">>

sPyTrue == <<"T", "r", "u", "e">>

sPyFalse == <<"F", "a", "l", "s", "e">>

sPyInf == <<"i", "n", "f">>

sPyNegInf == <<"-", "i", "n", "f">>

sPyNan == <<"n", "a", "n">>

(***************************************************************************)
(* _clean_raw_output                                                       *)
(***************************************************************************)
\* the text after both re.sub calls
RemoveFences(raw_output) == ReSub(ReSub(raw_output, FenceJson), Fence)

\* json_start = max(cleaned.find('['), cleaned.find('{'))
JsonStart(cleaned) == Max(Find(cleaned, "["), Find(cleaned, "{"))

\* json_end = max(cleaned.rfind(']'), cleaned.rfind('}'))
JsonEnd(cleaned) == Max(RFind(cleaned, "]"), RFind(cleaned, "}"))

\* if json_start != -1: cleaned = cleaned[json_start:]
CutStart(cleaned) ==
    IF JsonStart(cleaned) # -1 THEN SliceFrom(cleaned, JsonStart(cleaned)) ELSE cleaned

\* if json_end != -1: cleaned = cleaned[:json_end + 1]
CutEnd(cleaned) ==
    IF JsonEnd(cleaned) # -1 THEN SliceTo(cleaned, JsonEnd(cleaned) + 1) ELSE cleaned

\* _clean_raw_output
CleanRawOutput(raw_output) == Strip(CutEnd(CutStart(RemoveFences(raw_output))))

(***************************************************************************)
(* JSON values as json.loads builds them.  Every value is a record of one  *)
(* shape: t the Python type; s the characters of a str, or the repr of a   *)
(* float; n the number of an int, the truncation of a float, 1/0 of a      *)
(* bool; keys/kids the keys (in insertion order) and values of a dict;     *)
(* kids the elements of a list.                                            *)
(***************************************************************************)
JVal(t, s, n, keys, kids) == [t |-> t, s |-> s, n |-> n, keys |-> keys, kids |-> kids]

VStr(s) == JVal("str", s, 0, <<>>, <<>>)

VInt(n) == JVal("int", <<>>, n, <<>>, <<>>)

VFloat(repr, trunc) == JVal("float", repr, trunc, <<>>, <<>>)

VBool(b) == JVal("bool", <<>>, IF b THEN 1 ELSE 0, <<>>, <<>>)

VNone == JVal("NoneType", <<>>, 0, <<>>, <<>>)

VNaN == JVal("nan", <<>>, 0, <<>>, <<>>)

\* float('inf') (sign 1) and float('-inf') (sign -1)
VInf(sign) == JVal("inf", <<>>, sign, <<>>, <<>>)

VList(kids) == JVal("list", <<>>, 0, <<>>, kids)

VDict(keys, kids) == JVal("dict", <<>>, 0, keys, kids)

\* key in item
HasKey(item, key) == \E i \in 1..Len(item.keys) : item.keys[i] = key

\* item[key] for a key that is present
GetKey(item, key) == item.kids[CHOOSE i \in 1..Len(item.keys) : item.keys[i] = key]

\* d[key] = value on a dict under construction: a repeated key keeps its
\* first position and takes the last value
DictPut(d, key, value) ==
    IF HasKey(d, key)
    THEN LET i == CHOOSE j \in 1..Len(d.keys) : d.keys[j] = key
         IN  VDict(d.keys, [d.kids EXCEPT ![i] = value])
    ELSE VDict(Append(d.keys, key), Append(d.kids, value))

(***************************************************************************)
(* json.loads (json.decoder / json.scanner of the standard library, as     *)
(* called at json_validator_tool.py:83 and :112).  A result is             *)
(* [ok, val, end]: ok = FALSE is json.JSONDecodeError, end the index of    *)
(* the next character.  Number literals with an exponent part and \u       *)
(* escapes are not written by any text explored here and are not decoded.  *)
(***************************************************************************)
DecodeError == [ok |-> FALSE, val |-> VNone, end |-> 0]

Decoded(val, end) == [ok |-> TRUE, val |-> val, end |-> end]

DigitSet == {Digits[i] : i \in 1..10}

\* characters below 0x20, which a strict string literal may not hold
ControlChars == {"\n", "\t", "\r", "\f"}

\* json.decoder.BACKSLASH
IsEscape(c) == c \in {"\"", "\\", "/", "n", "r", "t", "f"}

Unescape(c) ==
    CASE c = "n" -> "\n"
      [] c = "r" -> "\r"
      [] c = "t" -> "\t"
      [] c = "f" -> "\f"
      [] OTHER -> c

\* int() of a run of decimal digits
RECURSIVE DigitsToInt(_)
DigitsToInt(ds) ==
    IF ds = <<>> THEN 0
    ELSE DigitsToInt(SubSeq(ds, 1, Len(ds) - 1)) * 10 + DigitVal(ds[Len(ds)])

SkipWs(s, p) == SkipChars(s, JsonWhitespace, p)

CharAt(s, p) == IF p >= 1 /\ p <= Len(s) THEN s[p] ELSE ""

\* json.decoder.py_scanstring, p the index after the opening quote (or after
\* the last escape): STRINGCHUNK takes the text up to the next quote,
\* backslash or control character
RECURSIVE ScanString(_, _, _)
ScanString(s, p, acc) ==
    LET e == FirstIn(s, {"\"", "\\"} \cup ControlChars, p)
        chunk == acc \o SubSeq(s, p, e - 1)
    IN  IF e > Len(s) THEN DecodeError
        ELSE IF s[e] = "\"" THEN Decoded(VStr(chunk), e + 1)
        ELSE IF s[e] = "\\"
             THEN IF IsEscape(CharAt(s, e + 1))
                  THEN ScanString(s, e + 2, Append(chunk, Unescape(s[e + 1])))
                  ELSE DecodeError
        ELSE DecodeError

\* repr of the float read from integer digits ip and fraction digits fp
FloatRepr(neg, ip, fp) ==
    LET f == RStripChars(fp, {"0"})
    IN  (IF neg THEN <<"-">> ELSE <<>>) \o ip \o <<".">> \o (IF f = <<>> THEN <<"0">> ELSE f)

\* json.scanner.NUMBER_RE at p: (-?(?:0|[1-9]\d*))(\.\d+)?
MatchNumber(s, p) ==
    LET neg == CharAt(s, p) = "-"
        q == IF neg THEN p + 1 ELSE p
        intEnd == IF CharAt(s, q) = "0" THEN q + 1
                  ELSE IF CharAt(s, q) \in DigitSet THEN SkipChars(s, DigitSet, q)
                  ELSE q
        hasFrac == CharAt(s, intEnd) = "." /\ CharAt(s, intEnd + 1) \in DigitSet
        fracEnd == SkipChars(s, DigitSet, intEnd + 1)
        ip == SubSeq(s, q, intEnd - 1)
        mag == DigitsToInt(ip)
    IN  IF intEnd = q THEN DecodeError
        ELSE IF hasFrac
             THEN Decoded(VFloat(FloatRepr(neg, ip, SubSeq(s, intEnd + 1, fracEnd - 1)),
                                 IF neg THEN 0 - mag ELSE mag), fracEnd)
             ELSE Decoded(VInt(IF neg THEN 0 - mag ELSE mag), intEnd)

RECURSIVE ScanOnce(_, _)
RECURSIVE ArrayLoop(_, _, _)
RECURSIVE ObjectLoop(_, _, _)

\* json.decoder.JSONArray, p the index after '['
JSONArray(s, p) ==
    LET e == SkipWs(s, p)
    IN  IF CharAt(s, e) = "]" THEN Decoded(VList(<<>>), e + 1)
        ELSE ArrayLoop(s, e, <<>>)

ArrayLoop(s, p, acc) ==
    LET r == ScanOnce(s, p)
        e == SkipWs(s, r.end)
        c == CharAt(s, e)
    IN  IF ~r.ok THEN DecodeError
        ELSE IF c = "]" THEN Decoded(VList(Append(acc, r.val)), e + 1)
        ELSE IF c # "," THEN DecodeError
        ELSE ArrayLoop(s, SkipWs(s, e + 1), Append(acc, r.val))

\* json.decoder.JSONObject, p the index after '{'
JSONObject(s, p) ==
    LET e == SkipWs(s, p)
    IN  IF CharAt(s, e) = "}" THEN Decoded(VDict(<<>>, <<>>), e + 1)
        ELSE IF CharAt(s, e) # "\"" THEN DecodeError
        ELSE ObjectLoop(s, e + 1, VDict(<<>>, <<>>))

\* the while loop of JSONObject, p the index after the key's opening quote
ObjectLoop(s, p, d) ==
    LET k == ScanString(s, p, <<>>)
        colon == SkipWs(s, k.end)
        v == ScanOnce(s, SkipWs(s, colon + 1))
        e == SkipWs(s, v.end)
        c == CharAt(s, e)
        nextKey == SkipWs(s, e + 1)
    IN  IF ~k.ok THEN DecodeError
        ELSE IF CharAt(s, colon) # ":" THEN DecodeError
        ELSE IF ~v.ok THEN DecodeError
        ELSE IF c = "}" THEN Decoded(DictPut(d, k.val.s, v.val), e + 1)
        ELSE IF c # "," THEN DecodeError
        ELSE IF CharAt(s, nextKey) # "\"" THEN DecodeError
        ELSE ObjectLoop(s, nextKey + 1, DictPut(d, k.val.s, v.val))

\* json.scanner.py_make_scanner._scan_once.  The number match is written
\* last: no text that NUMBER_RE matches starts with N, I or -I, so the order
\* of these branches does not change the result
ScanOnce(s, p) ==
    LET c == CharAt(s, p)
    IN  IF p > Len(s) THEN DecodeError
        ELSE IF c = "\"" THEN ScanString(s, p + 1, <<>>)
        ELSE IF c = "{" THEN JSONObject(s, p + 1)
        ELSE IF c = "[" THEN JSONArray(s, p + 1)
        ELSE IF c = "n" /\ MatchAt(s, sNull, p) THEN Decoded(VNone, p + 4)
        ELSE IF c = "t" /\ MatchAt(s, sTrue, p) THEN Decoded(VBool(TRUE), p + 4)
        ELSE IF c = "f" /\ MatchAt(s, sFalse, p) THEN Decoded(VBool(FALSE), p + 5)
        ELSE IF c = "N" /\ MatchAt(s, sNaN, p) THEN Decoded(VNaN, p + 3)
        ELSE IF c = "I" /\ MatchAt(s, sInfinity, p) THEN Decoded(VInf(1), p + 8)
        ELSE IF c = "-" /\ MatchAt(s, sNegInfinity, p) THEN Decoded(VInf(-1), p + 9)
        ELSE MatchNumber(s, p)

\* JSONDecoder.decode after raw_decode returned r: "Extra data" unless only
\* whitespace follows the value
EndOfDocument(s, r) ==
    IF ~r.ok THEN DecodeError
    ELSE IF SkipWs(s, r.end) # Len(s) + 1 THEN DecodeError
    ELSE r

\* json.loads: JSONDecoder.decode
JsonLoads(s) == EndOfDocument(s, ScanOnce(s, SkipWs(s, 1)))

(***************************************************************************)
(* Python builtins applied to decoded values: str(), repr(), int().        *)
(***************************************************************************)
\* str() of a non-negative int
RECURSIVE NatToStr(_)
NatToStr(n) ==
    IF n < 10 THEN <<DigitChar(n)>>
    ELSE NatToStr(n \div 10) \o <<DigitChar(n % 10)>>

\* str() of an int
IntToStr(n) == IF n < 0 THEN <<"-">> \o NatToStr(0 - n) ELSE NatToStr(n)

\* sep.join(parts), joining the two halves of parts
RECURSIVE Join(_, _)
Join(parts, sep) ==
    IF parts = <<>> THEN <<>>
    ELSE IF Len(parts) = 1 THEN parts[1]
    ELSE LET h == Len(parts) \div 2
         IN  Join(SubSeq(parts, 1, h), sep) \o sep \o Join(SubSeq(parts, h + 1, Len(parts)), sep)

\* concatenation of a sequence of texts
Concat(parts) == Join(parts, <<>>)

\* the body of repr(str) with quote character q
ReprChar(c, q) ==
    CASE c = "\\" -> <<"\\", "\\">>
      [] c = q -> <<"\\", q>>
      [] c = "\n" -> <<"\\", "n">>
      [] c = "\r" -> <<"\\", "r">>
      [] c = "\t" -> <<"\\", "t">>
      [] c = "\f" -> <<"\\", "x", "0", "c">>
      [] OTHER -> <<c>>

\* repr() of a str: single quotes unless it holds ' and no "
ReprStr(s) ==
    LET hasSingle == \E i \in 1..Len(s) : s[i] = "'"
        hasDouble == \E i \in 1..Len(s) : s[i] = "\""
        q == IF hasSingle /\ ~hasDouble THEN "\"" ELSE "'"
    IN  <<q>> \o Concat([i \in 1..Len(s) |-> ReprChar(s[i], q)]) \o <<q>>

\* repr() of a decoded value
RECURSIVE PyRepr(_)
PyRepr(v) ==
    CASE v.t = "str" -> ReprStr(v.s)
      [] v.t = "int" -> IntToStr(v.n)
      [] v.t = "float" -> v.s
      [] v.t = "bool" -> IF v.n = 1 THEN sPyTrue ELSE sPyFalse
      [] v.t = "NoneType" -> sPyNone
      [] v.t = "nan" -> sPyNan
      [] v.t = "inf" -> IF v.n = 1 THEN sPyInf ELSE sPyNegInf
      [] v.t = "list" ->
            <<"[">> \o Join([i \in 1..Len(v.kids) |-> PyRepr(v.kids[i])], <<",", " ">>) \o <<"]">>
      [] v.t = "dict" ->
            <<"{">>
            \o Join([i \in 1..Len(v.kids) |->
                        ReprStr(v.keys[i]) \o <<":", " ">> \o PyRepr(v.kids[i])], <<",", " ">>)
            \o <<"}">>

\* str() of a decoded value
PyStr(v) == IF v.t = "str" THEN v.s ELSE PyRepr(v)

\* the result of an operation that may raise: exc = "" when it returned
Returned(n) == [exc |-> "", n |-> n]

Raised(exc) == [exc |-> exc, n |-> 0]

\* digits with single underscores between them, as int() accepts
IsIntBody(b) ==
    /\ b # <<>>
    /\ \A i \in 1..Len(b) : b[i] \in DigitSet \/ b[i] = "_"
    /\ b[1] # "_"
    /\ b[Len(b)] # "_"
    /\ \A i \in 1..(Len(b) - 1) : ~(b[i] = "_" /\ b[i + 1] = "_")

\* mutation of IntOfStr: the first run of decimal digits is converted
IntOfStr_FirstDigits(s) ==
    LET a == SkipChars(s, {s[i] : i \in 1..Len(s)} \ DigitSet, 1)
    IN  IF a > Len(s) THEN Raised("ValueError")
        ELSE Returned(DigitsToInt(SubSeq(s, a, SkipChars(s, DigitSet, a) - 1)))

\* int() of a str: surrounding whitespace, an optional sign, decimal digits
IntOfStr(s) ==
    LET t == Strip(s)
        signed == t # <<>> /\ t[1] \in {"+", "-"}
        body == IF signed THEN Tail(t) ELSE t
        mag == DigitsToInt(SelectSeq(body, LAMBDA c : c # "_"))
    IN  IF IsIntBody(body)
        THEN Returned(IF signed /\ t[1] = "-" THEN 0 - mag ELSE mag)
        ELSE Raised("ValueError")

\* int() of a decoded value
PyInt(v) ==
    CASE v.t = "int" -> Returned(v.n)
      [] v.t = "bool" -> Returned(v.n)
      [] v.t = "float" -> Returned(v.n)
      [] v.t = "nan" -> Raised("ValueError")
      [] v.t = "inf" -> Raised("OverflowError")
      [] v.t = "str" -> IntOfStr(v.s)
      [] OTHER -> Raised("TypeError")

(***************************************************************************)
(* json.dumps(obj, indent=2) (json.encoder) for the values the tool dumps: *)
(* lists and dicts of str and int.                                         *)
(***************************************************************************)
\* json.encoder.ESCAPE_DCT
EscapeChar(c) ==
    CASE c = "\\" -> <<"\\", "\\">>
      [] c = "\"" -> <<"\\", "\"">>
      [] c = "\n" -> <<"\\", "n">>
      [] c = "\r" -> <<"\\", "r">>
      [] c = "\t" -> <<"\\", "t">>
      [] c = "\f" -> <<"\\", "f">>
      [] OTHER -> <<c>>

\* json.encoder.py_encode_basestring
EncodeString(s) ==
    <<"\"">> \o Concat([i \in 1..Len(s) |-> EscapeChar(s[i])]) \o <<"\"">>

\* '\n' + ' ' * (2 * level)
NewlineIndent(level) == <<"\n">> \o [i \in 1..(2 * level) |-> " "]

\* _make_iterencode with indent=2, at nesting level
RECURSIVE IterEncode(_, _)
IterEncode(v, level) ==
    CASE v.t = "str" -> EncodeString(v.s)
      [] v.t = "int" -> IntToStr(v.n)
      [] v.t = "list" ->
            IF v.kids = <<>> THEN <<"[", "]">>
            ELSE <<"[">> \o NewlineIndent(level + 1)
                 \o Join([i \in 1..Len(v.kids) |-> IterEncode(v.kids[i], level + 1)],
                         <<",">> \o NewlineIndent(level + 1))
                 \o NewlineIndent(level) \o <<"]">>
      [] v.t = "dict" ->
            IF v.kids = <<>> THEN <<"{", "}">>
            ELSE <<"{">> \o NewlineIndent(level + 1)
                 \o Join([i \in 1..Len(v.kids) |->
                             EncodeString(v.keys[i]) \o <<":", " ">>
                             \o IterEncode(v.kids[i], level + 1)],
                         <<",">> \o NewlineIndent(level + 1))
                 \o NewlineIndent(level) \o <<"}">>

\* json.dumps(obj, indent=2)
JsonDumps(obj) == IterEncode(obj, 0)

(***************************************************************************)
(* JSONStructureValidatorTool: the helpers of the fallback text parser.    *)
(***************************************************************************)
\* .strip().strip('"').strip("'").rstrip(',')
StripValue(s) == RStripChars(StripChars(StripChars(Strip(s), {"\""}), {"'"}), {","})

\* mutation of ExtractValue: the text after the colon is returned as it is
ExtractValue_Unstripped(line) ==
    IF Find(line, ":") # -1 THEN SliceFrom(line, Find(line, ":") + 1) ELSE line

\* _extract_value
ExtractValue(line) ==
    IF Find(line, ":") # -1
    THEN StripValue(SliceFrom(line, Find(line, ":") + 1))
    ELSE StripValue(line)

\* mutation of ExtractNumericValue: a minus sign before the digits is kept
ExtractNumericValue_Signed(line) ==
    LET a == SkipChars(line, {line[i] : i \in 1..Len(line)} \ DigitSet, 1)
    IN  IF a > Len(line) THEN <<"0">>
        ELSE IF a > 1 /\ line[a - 1] = "-"
        THEN SubSeq(line, a - 1, SkipChars(line, DigitSet, a) - 1)
        ELSE SubSeq(line, a, SkipChars(line, DigitSet, a) - 1)

\* _extract_numeric_value: re.findall(r'\d+', line)[0], or "0"
ExtractNumericValue(line) ==
    LET a == SkipChars(line, {line[i] : i \in 1..Len(line)} \ DigitSet, 1)
    IN  IF a > Len(line) THEN <<"0">>
        ELSE SubSeq(line, a, SkipChars(line, DigitSet, a) - 1)

\* the records the tool emits
QAItem(q, a, d) ==
    VDict(<<kQuestion, kAnswer, kDiagramOrEquation>>, <<VStr(q), VStr(a), VStr(d)>>)

MarkingItem(q, m) == VDict(<<kQuestion, kMarksAwarded>>, <<VStr(q), VInt(m)>>)

\* the state of a fallback loop: the result list and current_item
LoopState(result, current) == [result |-> result, current |-> current]

\* current_item[key] = value
SetField(item, key, value) == DictPut(item, key, value)

\* the truth value of current_item["question"]
HasQuestion(item) == GetKey(item, kQuestion).s # <<>>

IsQuestionLine(line) ==
    StartsWith(line, qQuestion) \/ StartsWith(Lower(line), kQuestion)

IsAnswerLine(line) ==
    StartsWith(line, qAnswer) \/ StartsWith(Lower(line), kAnswer)

IsDiagramLine(line) ==
    StartsWith(line, qDiagramOrEquation) \/ Contains(Lower(line), kDiagram)

\* the keyword list of json_validator_tool.py:126 and :190
MarksKeys == <<kMarksAwarded, kMarks, kScore, kPoints>>

IsMarksLine(line) == \E i \in 1..Len(MarksKeys) : Contains(Lower(line), MarksKeys[i])

\* mutation of QuestionStep: every question line appends the current item
QuestionStep_AlwaysPush(st, line, empty) ==
    LoopState(Append(st.result, st.current),
              SetField(empty, kQuestion, VStr(ExtractValue(line))))

\* mutation of QuestionStep: a question line always starts from an empty item
QuestionStep_AlwaysReset(st, line, empty) ==
    LoopState(IF HasQuestion(st.current)
              THEN Append(st.result, st.current) ELSE st.result,
              SetField(empty, kQuestion, VStr(ExtractValue(line))))

\* a question line: flush a current item that has a question, then start anew
QuestionStep(st, line, empty) ==
    LET flushed == IF HasQuestion(st.current)
                   THEN LoopState(Append(st.result, st.current), empty)
                   ELSE st
    IN  LoopState(flushed.result,
                  SetField(flushed.current, kQuestion, VStr(ExtractValue(line))))

\* one iteration of the loop of _extract_restructure_from_text
RestructureStep(st, rawline) ==
    LET line == Strip(rawline)
    IN  IF line = <<>> THEN st
        ELSE IF IsQuestionLine(line) THEN QuestionStep(st, line, QAItem(<<>>, <<>>, <<>>))
        ELSE IF IsAnswerLine(line)
             THEN LoopState(st.result, SetField(st.current, kAnswer, VStr(ExtractValue(line))))
        ELSE IF IsDiagramLine(line)
             THEN LoopState(st.result,
                            SetField(st.current, kDiagramOrEquation, VStr(ExtractValue(line))))
        ELSE st

\* int(self._extract_numeric_value(line)), 0 on ValueError
LineMarks(line) ==
    LET r == IntOfStr(ExtractNumericValue(line))
    IN  IF r.exc = "" THEN r.n ELSE 0

\* mutation of MarkingStep: a line that matches no label is added to the
\* question
MarkingStep_AccumulateText(st, rawline) ==
    LET line == Strip(rawline)
    IN  IF line = <<>> THEN st
        ELSE IF IsQuestionLine(line) THEN QuestionStep(st, line, MarkingItem(<<>>, 0))
        ELSE IF IsMarksLine(line)
             THEN LoopState(st.result, SetField(st.current, kMarksAwarded, VInt(LineMarks(line))))
        ELSE LoopState(st.result,
                       SetField(st.current, kQuestion,
                                VStr(GetKey(st.current, kQuestion).s \o line)))

\* one iteration of the loop of _extract_marking_from_text
MarkingStep(st, rawline) ==
    LET line == Strip(rawline)
    IN  IF line = <<>> THEN st
        ELSE IF IsQuestionLine(line) THEN QuestionStep(st, line, MarkingItem(<<>>, 0))
        ELSE IF IsMarksLine(line)
             THEN LoopState(st.result, SetField(st.current, kMarksAwarded, VInt(LineMarks(line))))
        ELSE st

RECURSIVE RestructureLoop(_, _, _)
RestructureLoop(st, lines, i) ==
    IF i > Len(lines) THEN st
    ELSE RestructureLoop(RestructureStep(st, lines[i]), lines, i + 1)

RECURSIVE MarkingLoop(_, _, _)
MarkingLoop(st, lines, i) ==
    IF i > Len(lines) THEN st
    ELSE MarkingLoop(MarkingStep(st, lines[i]), lines, i + 1)

\* result after the final "if current_item["question"]: result.append(...)"
Finish(st) ==
    IF HasQuestion(st.current) THEN Append(st.result, st.current) ELSE st.result

\* the list _extract_restructure_from_text dumps
RestructureRecords(text) ==
    Finish(RestructureLoop(LoopState(<<>>, QAItem(<<>>, <<>>, <<>>)), SplitLines(text), 1))

\* the list _extract_marking_from_text dumps
MarkingRecords(text) ==
    Finish(MarkingLoop(LoopState(<<>>, MarkingItem(<<>>, 0)), SplitLines(text), 1))

\* _extract_restructure_from_text
ExtractRestructureFromText(text) == JsonDumps(VList(RestructureRecords(text)))

\* _extract_marking_from_text
ExtractMarkingFromText(text) == JsonDumps(VList(MarkingRecords(text)))

(***************************************************************************)
(* The error records of _run.                                              *)
(***************************************************************************)
\* str(e) of the exceptions that reach the handler of _run
ExcMessage(exc, output_type) ==
    IF exc = "OverflowError" THEN sOverflowMsg ELSE sUnknownOutputType \o output_type

\* the two error records of _run
RestructureErrorRecord(msg) ==
    JsonDumps(VList(<<QAItem(sErrorInProcessing, sProcessingError \o msg, <<>>)>>))

\* mutation of MarkingErrorRecord: the record is dumped without its list
MarkingErrorRecord_BareObject == JsonDumps(MarkingItem(sErrorInProcessing, 0))

MarkingErrorRecord == JsonDumps(VList(<<MarkingItem(sErrorInProcessing, 0)>>))

(***************************************************************************)
(* The formatters.  A result is [exc, out, path]: exc = "" and out the     *)
(* returned text, path "json" when json.loads succeeded and "text" when    *)
(* the fallback parser answered; or exc the exception that left the        *)
(* function.                                                               *)
(***************************************************************************)
Formatted(out, path) == [exc |-> "", out |-> out, path |-> path]

Failed(exc) == [exc |-> exc, out |-> <<>>, path |-> "json"]

\* data, after "if not isinstance(data, list): data = [data]"
AsList(data) == IF data.t = "list" THEN data.kids ELSE <<data>>

\* the items the loops do not skip
DictItems(data) == SelectSeq(AsList(data), LAMBDA item : item.t = "dict")

\* str(item.get(key, ""))
StrField(item, key) == IF HasKey(item, key) THEN PyStr(GetKey(item, key)) ELSE <<>>

\* mutation of RestructureItem: only the fields the item holds are copied
RestructureItem_PresentOnly(item) ==
    VDict(SelectSeq(<<kQuestion, kAnswer, kDiagramOrEquation>>, LAMBDA k : HasKey(item, k)),
          [i \in 1..Len(SelectSeq(<<kQuestion, kAnswer, kDiagramOrEquation>>,
                                   LAMBDA k : HasKey(item, k))) |->
              VStr(StrField(item, SelectSeq(<<kQuestion, kAnswer, kDiagramOrEquation>>,
                                            LAMBDA k : HasKey(item, k))[i]))])

\* formatted_item of _format_restructure_output
RestructureItem(item) ==
    QAItem(StrField(item, kQuestion), StrField(item, kAnswer),
           StrField(item, kDiagramOrEquation))

\* the result list of _format_restructure_output
RestructureResult(items) == [i \in 1..Len(items) |-> RestructureItem(items[i])]

\* _format_restructure_output once json.loads has answered r
RestructureOutcome(r, cleaned_output) ==
    IF ~r.ok THEN Formatted(ExtractRestructureFromText(cleaned_output), "text")
    ELSE Formatted(JsonDumps(VList(RestructureResult(DictItems(r.val)))), "json")

\* _format_restructure_output
FormatRestructureOutput(cleaned_output) ==
    RestructureOutcome(JsonLoads(cleaned_output), cleaned_output)

\* the "for key in [...]" loop of _format_marking_output from the i-th key on
RECURSIVE MarksFrom(_, _, _)
MarksFrom(item, i, marks_value) ==
    IF i > Len(MarksKeys) THEN Returned(marks_value)
    ELSE IF HasKey(item, MarksKeys[i])
         THEN LET r == PyInt(GetKey(item, MarksKeys[i]))
              IN  IF r.exc = "" THEN Returned(r.n)
                  ELSE IF r.exc \in {"ValueError", "TypeError"} THEN MarksFrom(item, i + 1, 0)
                  ELSE r
         ELSE MarksFrom(item, i + 1, marks_value)

\* mutation of MarksValue: a negative value is replaced by 0
MarksValue_Clamped(item) ==
    LET r == MarksFrom(item, 1, 0)
    IN  IF r.exc = "" /\ r.n < 0 THEN Returned(0) ELSE r

\* marks_value of one item
MarksValue(item) == MarksFrom(item, 1, 0)

\* the loop of _format_marking_output over items whose marks were marks:
\* the first exception that is not caught leaves the function
MarkingResult(items, marks) ==
    LET bad == {i \in 1..Len(items) : marks[i].exc # ""}
    IN  IF bad # {}
        THEN Failed(marks[CHOOSE i \in bad : \A j \in bad : i <= j].exc)
        ELSE Formatted(JsonDumps(VList([i \in 1..Len(items) |->
                           MarkingItem(StrField(items[i], kQuestion), marks[i].n)])),
                       "json")

\* the loop of _format_marking_output
MarkingItems(items) ==
    MarkingResult(items, [i \in 1..Len(items) |-> MarksValue(items[i])])

\* mutation of MarkingOutcome: a fallback parse without records answers
\* with the error record
MarkingOutcome_ErrorOnEmpty(r, cleaned_output) ==
    IF ~r.ok
    THEN IF MarkingRecords(cleaned_output) = <<>>
         THEN Formatted(MarkingErrorRecord, "text")
         ELSE Formatted(ExtractMarkingFromText(cleaned_output), "text")
    ELSE MarkingItems(DictItems(r.val))

\* _format_marking_output once json.loads has answered r
MarkingOutcome(r, cleaned_output) ==
    IF ~r.ok THEN Formatted(ExtractMarkingFromText(cleaned_output), "text")
    ELSE MarkingItems(DictItems(r.val))

\* _format_marking_output
FormatMarkingOutput(cleaned_output) ==
    MarkingOutcome(JsonLoads(cleaned_output), cleaned_output)

\* the dispatch on output_type in the try block of _run
Dispatch(cleaned_output, output_type) ==
    IF Lower(output_type) = sRestructure THEN FormatRestructureOutput(cleaned_output)
    ELSE IF Lower(output_type) = sMarking THEN FormatMarkingOutput(cleaned_output)
    ELSE Failed("ValueError")

\* the try block of _run
TryRun(raw_output, output_type) == Dispatch(CleanRawOutput(raw_output), output_type)

\* the except block of _run after the try block ended as r
Handle(r, output_type) ==
    IF r.exc = "" THEN [out |-> r.out, path |-> r.path]
    ELSE IF Lower(output_type) = sRestructure
         THEN [out |-> RestructureErrorRecord(ExcMessage(r.exc, output_type)),
               path |-> "error"]
    ELSE [out |-> MarkingErrorRecord, path |-> "error"]

\* _run with the path it took: "json", "text" or "error" (the except block)
RunTrace(raw_output, output_type) == Handle(TryRun(raw_output, output_type), output_type)

\* _run
Run(raw_output, output_type) == RunTrace(raw_output, output_type).out

(***************************************************************************)
(* FixedQAExtractor.extract_json_from_text of test.py: four strategies     *)
(* tried in a fixed order, the first that yields data answers.  The text   *)
(* is always a string here, so the isinstance guard never fires.           *)
(***************************************************************************)
\* least and greatest element of a non-empty set of integers
SetMin(S) == CHOOSE m \in S : \A n \in S : m <= n

SetMax(S) == CHOOSE m \in S : \A n \in S : m >= n

\* the outcome of one strategy: whether it returned, and the list returned
NotFound == [ok |-> FALSE, data |-> <<>>]

Found(data) == [ok |-> TRUE, data |-> data]

\* "if isinstance(data, list): return data / elif isinstance(data, dict):
\* return [data]" around json.loads; any other value falls through
ListOrDict(r) ==
    IF r.ok /\ r.val.t = "list" THEN Found(r.val.kids)
    ELSE IF r.ok /\ r.val.t = "dict" THEN Found(<<r.val>>)
    ELSE NotFound

\* "if isinstance(data, list): return data" around json.loads
ListOnly(r) ==
    IF r.ok /\ r.val.t = "list" THEN Found(r.val.kids) ELSE NotFound

\* Method 1: direct JSON parsing of the stripped text
Method1(text) == ListOrDict(JsonLoads(Strip(text)))

\* one match of a regular expression: the text findall reports for it and
\* the 1-based index behind the match
NoMatch == [ok |-> FALSE, group |-> <<>>, end |-> 0]

Matched(group, end) == [ok |-> TRUE, group |-> group, end |-> end]

\* does "\n\s*```" match at index j
ClosingFenceAt(text, j) ==
    /\ CharAt(text, j) = "\n"
    /\ MatchAt(text, Fence, SkipChars(text, Whitespace, j + 1))

\* the index behind the closing fence whose newline is at j
ClosingFenceEnd(text, j) == SkipChars(text, Whitespace, j + 1) + Len(Fence)

\* "(.*?)\n\s*```" behind the newline nmax that ends "\s*\n", N being the
\* newlines "\s*\n" could end at: the lazy group stops at the first closing
\* fence behind nmax; with none there the match backtracks to the newline
\* before nmax when nmax itself opens a closing fence
FencedGroup(text, N, nmax) ==
    IF \E j \in (nmax + 1)..Len(text) : ClosingFenceAt(text, j)
    THEN LET j == SetMin({k \in (nmax + 1)..Len(text) : ClosingFenceAt(text, k)})
         IN Matched(SubSeq(text, nmax + 1, j - 1), ClosingFenceEnd(text, j))
    ELSE IF Cardinality(N) >= 2 /\ ClosingFenceAt(text, nmax)
    THEN Matched(SubSeq(text, SetMax(N \ {nmax}) + 1, nmax - 1),
                 ClosingFenceEnd(text, nmax))
    ELSE NoMatch

\* the newlines of the whitespace run behind the "```json" at index o
TagNewlines(text, o) ==
    {n \in (o + Len(FenceJson))..(SkipChars(text, Whitespace, o + Len(FenceJson)) - 1) :
        text[n] = "\n"}

\* the match of json_pattern that starts at index o
FencedMatchAt(text, o) ==
    IF ~MatchAt(text, FenceJson, o) \/ TagNewlines(text, o) = {} THEN NoMatch
    ELSE FencedGroup(text, TagNewlines(text, o), SetMax(TagNewlines(text, o)))

RECURSIVE FencedFrom(_, _)
\* re.findall(json_pattern, text, re.DOTALL) from index i on
FencedFrom(text, i) ==
    IF \E o \in i..Len(text) : FencedMatchAt(text, o).ok
    THEN LET m == FencedMatchAt(text, SetMin({o \in i..Len(text) : FencedMatchAt(text, o).ok}))
         IN <<m.group>> \o FencedFrom(text, m.end)
    ELSE <<>>

\* the first of the matches that a strategy's loop returns on, tried in order
FirstFound(tried) ==
    IF \E i \in 1..Len(tried) : tried[i].ok
    THEN tried[SetMin({i \in 1..Len(tried) : tried[i].ok})]
    ELSE NotFound

\* Method 2: the fenced code blocks, each stripped and parsed
Method2Tried(matches) ==
    [i \in 1..Len(matches) |-> ListOrDict(JsonLoads(Strip(matches[i])))]

Method2(text) == FirstFound(Method2Tried(FencedFrom(text, 1)))

\* the closing "\}\s*\]" candidates behind index p
ArrayClosings(text, p) ==
    {k \in p..Len(text) :
        text[k] = "}" /\ CharAt(text, SkipChars(text, Whitespace, k + 1)) = "]"}

\* the match of array_pattern that starts at index a: the lazy ".*?" stops at
\* the first closing
ArrayMatchAt(text, a) ==
    IF CharAt(text, a) # "[" \/ CharAt(text, SkipChars(text, Whitespace, a + 1)) # "{"
    THEN NoMatch
    ELSE IF ArrayClosings(text, SkipChars(text, Whitespace, a + 1) + 1) = {}
    THEN NoMatch
    ELSE LET e == SkipChars(text, Whitespace,
                     SetMin(ArrayClosings(text, SkipChars(text, Whitespace, a + 1) + 1)) + 1)
         IN Matched(SubSeq(text, a, e), e + 1)

RECURSIVE ArraysFrom(_, _)
\* re.findall(array_pattern, text, re.DOTALL) from index i on
ArraysFrom(text, i) ==
    IF \E a \in i..Len(text) : ArrayMatchAt(text, a).ok
    THEN LET m == ArrayMatchAt(text, SetMin({a \in i..Len(text) : ArrayMatchAt(text, a).ok}))
         IN <<m.group>> \o ArraysFrom(text, m.end)
    ELSE <<>>

\* Method 3: the bracketed arrays of objects, each parsed as it stands
Method3Tried(matches) ==
    [i \in 1..Len(matches) |-> ListOnly(JsonLoads(matches[i]))]

Method3(text) == FirstFound(Method3Tried(ArraysFrom(text, 1)))

Braces == {"{", "}"}

RECURSIVE ObjectEnd(_, _)
\* "[^{}]*(?:\{[^{}]*\}[^{}]*)*\}" from index p: the index of the closing
\* brace, 0 when there is no match.  An inner group is one brace pair with
\* no brace inside, so a second level of nesting ends the match
ObjectEnd(text, p) ==
    LET b == FirstIn(text, Braces, p)
    IN IF b > Len(text) THEN 0
       ELSE IF text[b] = "}" THEN b
       ELSE IF CharAt(text, FirstIn(text, Braces, b + 1)) # "}" THEN 0
       ELSE ObjectEnd(text, FirstIn(text, Braces, b + 1) + 1)

\* the match of object_pattern that starts at index a
ObjectMatchAt(text, a) ==
    IF CharAt(text, a) # "{" \/ ObjectEnd(text, a + 1) = 0 THEN NoMatch
    ELSE Matched(SubSeq(text, a, ObjectEnd(text, a + 1)), ObjectEnd(text, a + 1) + 1)

RECURSIVE ObjectsFrom(_, _)
\* re.findall(object_pattern, text) from index i on
ObjectsFrom(text, i) ==
    IF \E a \in i..Len(text) : ObjectMatchAt(text, a).ok
    THEN LET m == ObjectMatchAt(text, SetMin({a \in i..Len(text) : ObjectMatchAt(text, a).ok}))
         IN <<m.group>> \o ObjectsFrom(text, m.end)
    ELSE <<>>

\* a match of object_pattern that parses to a dict
IsDictResult(r) == r.ok /\ r.val.t = "dict"

RECURSIVE CollectObjects(_)
\* the loop of Method 4: the dicts among the parsed matches, in order
CollectObjects(matches) ==
    IF matches = <<>> THEN <<>>
    ELSE LET r == JsonLoads(Head(matches))
         IN (IF IsDictResult(r) THEN <<r.val>> ELSE <<>>) \o CollectObjects(Tail(matches))

\* "if objects: return objects"
NonEmpty(objects) == IF objects # <<>> THEN Found(objects) ELSE NotFound

\* Method 4: the individual objects of the text
Method4(text) == NonEmpty(CollectObjects(ObjectsFrom(text, 1)))

\* what extract_json_from_text returns, with the strategy that returned it
Located(data, method) == [data |-> data, method |-> method]

\* a failure that returns None, a value no located list equals
AllFailed_NoValue == Located(VNone, "none")

\* the final "return []"
AllFailed == Located(<<>>, "none")

\* the cascade tried in an order that puts the array scan before the fences
ExtractJsonFromText_ArrayFirst(text) ==
    IF Method1(text).ok THEN Located(Method1(text).data, "direct")
    ELSE IF Method3(text).ok THEN Located(Method3(text).data, "array")
    ELSE IF Method2(text).ok THEN Located(Method2(text).data, "fenced")
    ELSE IF Method4(text).ok THEN Located(Method4(text).data, "objects")
    ELSE AllFailed

\* extract_json_from_text
ExtractJsonFromText(text) ==
    IF Method1(text).ok THEN Located(Method1(text).data, "direct")
    ELSE IF Method2(text).ok THEN Located(Method2(text).data, "fenced")
    ELSE IF Method3(text).ok THEN Located(Method3(text).data, "array")
    ELSE IF Method4(text).ok THEN Located(Method4(text).data, "objects")
    ELSE AllFailed

(***************************************************************************)
(* run_restructure of main.py and the collaborators it calls.  A response  *)
(* of the Django API is described by whether the request itself raised a   *)
(* RequestException, its status code, the kind of its body, and the class  *)
(* of the exception response.json() raises on a body that is not JSON      *)
(* (a ValueError or a RequestException, by the version of requests).       *)
(* Texts and maps are opaque: "None" is None, "{}" the empty map, ""       *)
(* the empty string.                                                       *)
(***************************************************************************)
Response(exc, status, body, decode) ==
    [exc |-> exc, status |-> status, body |-> body, decode |-> decode]

\* what a helper hands to run_restructure: its values and error message, or
\* the exception that left it
Handed(value, extra, error) ==
    [raised |-> "", value |-> value, extra |-> extra, error |-> error]

Escaped(exception) ==
    [raised |-> exception, value |-> "None", extra |-> "None", error |-> "None"]

\* bool(v) is False
Falsy(v) == v \in {"None", "", "{}"}

\* get_answersheet_from_ocr
GetAnswersheetFromOcr(resp) ==
    IF resp.exc THEN Handed("None", "None", "OCR API request error")
    ELSE IF resp.status # 200 THEN Handed("None", "None", "OCR API error")
    ELSE IF resp.body = "not_json"
    THEN IF resp.decode = "RequestException"
         THEN Handed("None", "None", "OCR API request error")
         ELSE Escaped(resp.decode)
    ELSE IF resp.body = "items_not_maps" THEN Escaped("AttributeError")
    ELSE IF resp.body = "records" THEN Handed("answersheet", "structured", "None")
    ELSE Handed("None", "None", "No OCR records found")

\* get_vlmdesc_data and get_mcq_data, which differ in the field they read
GetCompareTextData(resp, field) ==
    IF resp.exc THEN Handed("{}", "None", "Compare-text API request error")
    ELSE IF resp.status # 200 THEN Handed("{}", "None", "Compare-text API error")
    ELSE IF resp.body = "not_json"
    THEN IF resp.decode = "RequestException"
         THEN Handed("{}", "None", "Compare-text API request error")
         ELSE Escaped(resp.decode)
    ELSE IF resp.body = "items_not_maps" THEN Escaped("AttributeError")
    ELSE IF resp.body = "records" THEN Handed(field, "None", "None")
    ELSE Handed("{}", "None", "None")

GetVlmdescData(resp) == GetCompareTextData(resp, "vlmdesc")

GetMcqData(resp) == GetCompareTextData(resp, "mcq")

\* get_rubrics_from_keyocr
GetRubricsFromKeyocr(resp) ==
    IF resp.exc THEN Handed("None", "None", "Key-OCR API request error")
    ELSE IF resp.status # 200 THEN Handed("None", "None", "Key-OCR API error")
    ELSE IF resp.body = "not_json"
    THEN IF resp.decode = "RequestException"
         THEN Handed("None", "None", "Key-OCR API request error")
         ELSE Escaped(resp.decode)
    ELSE IF resp.body = "records" THEN Handed("rubrics", "None", "None")
    ELSE IF resp.body = "empty_map" THEN Handed("None", "None", "No rubrics found")
    ELSE Handed("None", "None", "Unexpected response format")

\* save_result_to_database: (success, error); no exception leaves it
SaveResultToDatabase(resp) ==
    IF resp.exc THEN [success |-> FALSE, error |-> "Database save request error"]
    ELSE IF resp.status # 200 THEN [success |-> FALSE, error |-> "Database save error"]
    ELSE IF resp.body = "not_json"
    THEN [success |-> FALSE,
          error |-> IF resp.decode = "RequestException"
                    THEN "Database save request error"
                    ELSE "Unexpected error saving to database"]
    ELSE [success |-> TRUE, error |-> "None"]

\* update_result_in_database up to its PUT: found tells whether a result_id
\* was read from the GET response
LookupResult(resp) ==
    IF resp.exc THEN [found |-> FALSE, error |-> "Database update request error"]
    ELSE IF resp.status # 200
    THEN [found |-> FALSE, error |-> "Error fetching existing result"]
    ELSE IF resp.body = "not_json"
    THEN [found |-> FALSE,
          error |-> IF resp.decode = "RequestException"
                    THEN "Database update request error"
                    ELSE "Unexpected error updating database"]
    ELSE IF resp.body = "items_not_maps"
    THEN [found |-> FALSE, error |-> "Unexpected error updating database"]
    ELSE IF resp.body = "records" THEN [found |-> TRUE, error |-> "None"]
    ELSE [found |-> FALSE, error |-> "No existing result found"]

\* update_result_in_database from its PUT on
UpdateResultInDatabase(resp) ==
    IF resp.exc THEN [success |-> FALSE, error |-> "Database update request error"]
    ELSE IF resp.status # 200 THEN [success |-> FALSE, error |-> "Database update error"]
    ELSE IF resp.body = "not_json"
    THEN [success |-> FALSE,
          error |-> IF resp.decode = "RequestException"
                    THEN "Database update request error"
                    ELSE "Unexpected error updating database"]
    ELSE [success |-> TRUE, error |-> "None"]

\* the triple run_restructure returns; database_operation and database_error
\* are the fields it adds to the formatted result
Success(database_operation, database_error) ==
    [success |-> TRUE, message |-> "Success: Restructure completed",
     result |-> "formatted_result",
     database_operation |-> database_operation, database_error |-> database_error]

Failure(message) ==
    [success |-> FALSE, message |-> message, result |-> "None",
     database_operation |-> "None", database_error |-> "None"]

\* nothing returned yet
Running ==
    [success |-> FALSE, message |-> "", result |-> "None",
     database_operation |-> "None", database_error |-> "None"]

(***************************************************************************)
(* The agent outputs explored.  An input is described by its kind (one     *)
(* JSON object, a JSON array, or label-prefixed lines of text), the JSON   *)
(* values or the lines it is written from, and the text wrapped around it. *)
(***************************************************************************)
tQ == <<"Q">>

tQ1 == <<"Q", "1">>

tA1 == <<"A", "1">>

tQ2 == <<"Q", "2">>

tA2 == <<"A", "2">>

tD2 == <<"D", "2">>

tQ3 == <<"Q", "3">>

t7points == <<"7", " ", "p", "o", "i", "n", "t", "s">>

t7 == <<"7">>

tMinus3 == <<"-", "3">>

tPad12 == <<" ", "1", "2", " ">>

tX == <<"x">>

ProsePrefix ==
    <<"H", "e", "r", "e", " ", "i", "s", " ", "t", "h", "e", " ", "r", "e", "s", "u", "l", "t", ":", " ">>

ProseSuffix ==
    <<" ", "H", "o", "p", "e", " ", "t", "h", "a", "t", " ", "h", "e", "l", "p", "s", "!">>

NotePrefix == <<"{", "n", "o", "t", "e", "}", " ">>

lineQuestion ==
    <<"Q", "u", "e", "s", "t", "i", "o", "n", ":", " ", "W", "h", "a", "t", " ", "i", "s", " ", "2", "+", "2", "?">>

lineAnswer == <<"A", "n", "s", "w", "e", "r", ":", " ", "4">>

lineDiagram == <<"D", "i", "a", "g", "r", "a", "m", ":", " ", "D", "1">>

lineQuotedQuestion ==
    <<"\"", "q", "u", "e", "s", "t", "i", "o", "n", "\"", ":", " ", "\"", "Q", "4", "\"", ",">>

lineMarks == <<"M", "a", "r", "k", "s", ":", " ", "5">>

lineQ1 == <<"Q", "u", "e", "s", "t", "i", "o", "n", ":", " ", "Q", "1">>

lineScore == <<"S", "c", "o", "r", "e", ":", " ", "-", "3">>

lineNoise == <<"s", "e", "e", " ", "a", "b", "o", "v", "e">>

sOther == <<"o", "t", "h", "e", "r">>

sMarkingCap == <<"M", "a", "r", "k", "i", "n", "g">>

sRestructureUpper == <<"R", "E", "S", "T", "R", "U", "C", "T", "U", "R", "E">>

\* JSON text of a value with separators (',', ':'), as an agent writes it
RECURSIVE Compact(_)
Compact(v) ==
    CASE v.t = "str" -> EncodeString(v.s)
      [] v.t = "int" -> IntToStr(v.n)
      [] v.t = "float" -> v.s
      [] v.t = "bool" -> IF v.n = 1 THEN sTrue ELSE sFalse
      [] v.t = "NoneType" -> sNull
      [] v.t = "nan" -> sNaN
      [] v.t = "inf" -> IF v.n = 1 THEN sInfinity ELSE sNegInfinity
      [] v.t = "list" ->
            <<"[">> \o Join([i \in 1..Len(v.kids) |-> Compact(v.kids[i])], <<",">>) \o <<"]">>
      [] v.t = "dict" ->
            <<"{">>
            \o Join([i \in 1..Len(v.kids) |->
                        EncodeString(v.keys[i]) \o <<":">> \o Compact(v.kids[i])], <<",">>)
            \o <<"}">>

\* well-formed records of the two schemas
WellFormedQA == {QAItem(tQ1, tA1, <<>>), QAItem(tQ2, tA2, tD2)}

WellFormedMarking == {MarkingItem(tQ, 5), MarkingItem(tQ2, 0)}

\* array elements tried under the QA schema
QAElements ==
    WellFormedQA
    \cup {VDict(<<kQuestion>>, <<VStr(tQ3)>>),
          VDict(<<kQuestion, kAnswer, kDiagramOrEquation>>,
                <<VInt(5), VNone, VFloat(<<"2", ".", "5">>, 2)>>),
          VInt(7)}

\* array elements tried under the Marking schema
MarkingElements ==
    WellFormedMarking
    \cup {VDict(<<kQuestion, kScore>>, <<VStr(tQ2), VStr(t7points)>>),
          VDict(<<kQuestion, kMarksAwarded>>, <<VStr(tQ3), VInt(-3)>>),
          VDict(<<kQuestion, kMarks>>, <<VStr(tQ3), VInf(1)>>),
          VInt(7)}

\* a value under a marks key of a single object; "absent" leaves the key out
Absent == JVal("absent", <<>>, 0, <<>>, <<>>)

MarksAwardedValues ==
    {Absent, VInt(5), VInt(-3), VStr(t7points), VStr(tMinus3), VNone, VNaN, VInf(1),
     VFloat(<<"2", ".", "5">>, 2), VBool(TRUE)}

MarksValues == {Absent, VInt(4), VStr(tX), VStr(tPad12)}

ScoreValues == {Absent, VInt(3), VStr(t7points), VStr(t7), VInf(1)}

PointsValues == {Absent, VInt(2)}

\* the object {"question": "Q2", marks keys in the order of MarksKeys}
MarkingObject(ma, m, sc, p) ==
    LET ks == <<kQuestion, kMarksAwarded, kMarks, kScore, kPoints>>
        vs == <<VStr(tQ2), ma, m, sc, p>>
        present == SelectSeq(<<1, 2, 3, 4, 5>>, LAMBDA i : vs[i] # Absent)
    IN  VDict([i \in 1..Len(present) |-> ks[present[i]]],
              [i \in 1..Len(present) |-> vs[present[i]]])

MarkingObjects ==
    {MarkingObject(ma, m, sc, p) :
        ma \in MarksAwardedValues, m \in MarksValues, sc \in ScoreValues, p \in PointsValues}

QALines == {lineQuestion, lineAnswer, lineDiagram, lineQuotedQuestion, lineMarks, <<>>}

MarkingLines == {lineQ1, lineMarks, lineScore, lineAnswer, lineQuotedQuestion, lineNoise}

\* sequences over S of length 0..n
SeqsUpTo(S, n) == UNION {[1..k -> S] : k \in 0..n}

Wraps == {"bare", "fence", "prose", "note"}

Source(kind, wrap, items, lines) ==
    [kind |-> kind, wrap |-> wrap, items |-> items, lines |-> lines]

\* the text of an input
Body(src) ==
    CASE src.kind = "object" -> Compact(src.items[1])
      [] src.kind = "array" -> Compact(VList(src.items))
      [] src.kind = "text" -> Join(src.lines, <<"\n">>)

Render(src) ==
    CASE src.wrap = "bare" -> Body(src)
      [] src.wrap = "fence" -> FenceJson \o <<"\n">> \o Body(src) \o <<"\n">> \o Fence
      [] src.wrap = "prose" -> ProsePrefix \o Body(src) \o ProseSuffix
      [] src.wrap = "note" -> NotePrefix \o Body(src)

\* the calls explored: an input and the output_type it is processed under
QACalls ==
    {[src |-> Source("array", w, items, <<>>), otype |-> sRestructure] :
        w \in Wraps, items \in SeqsUpTo(QAElements, MaxItems)}
    \cup {[src |-> Source("object", w, <<item>>, <<>>), otype |-> ot] :
        w \in {"bare", "fence"}, item \in QAElements \ {VInt(7)},
        ot \in {sRestructure, sRestructureUpper}}
    \cup {[src |-> Source("text", "bare", <<>>, lines), otype |-> sRestructure] :
        lines \in SeqsUpTo(QALines, MaxLines)}

MarkingCalls ==
    {[src |-> Source("array", w, items, <<>>), otype |-> sMarking] :
        w \in Wraps, items \in SeqsUpTo(MarkingElements, MaxItems)}
    \cup {[src |-> Source("object", "bare", <<item>>, <<>>), otype |-> sMarking] :
        item \in MarkingObjects}
    \cup {[src |-> Source("object", "fence", <<item>>, <<>>), otype |-> ot] :
        item \in WellFormedMarking, ot \in {sMarkingCap, sOther}}
    \cup {[src |-> Source("text", "bare", <<>>, lines), otype |-> sMarking] :
        lines \in SeqsUpTo(MarkingLines, MaxLines)}

\* the labels of a question line and of an answer line
lblQuestion == <<"Q", "u", "e", "s", "t", "i", "o", "n", ":", " ">>

lblAnswer == <<"A", "n", "s", "w", "e", "r", ":", " ">>

\* plain values of a question or an answer: text without brackets that does
\* not start or end with whitespace or a quote and does not end with a comma
PlainValues ==
    {<<"W", "h", "a", "t", " ", "i", "s", " ", "2", "+", "2", "?">>,
     <<"4">>,
     <<"a", ":", " ", "b", ",", " ", "c">>,
     <<"n", "o", " ", "d", "i", "a", "g", "r", "a", "m">>}

\* a 'Question: <q>' line followed by an 'Answer: <a>' line, processed as QA
QuestionAnswerCalls ==
    {[src |-> Source("text", "bare", <<>>, <<lblQuestion \o q, lblAnswer \o a>>),
      otype |-> sRestructure] : q \in PlainValues, a \in PlainValues}

\* marks lines whose number has a sign, a decimal point, units, leading
\* zeros, a digit in the label before it, or is missing
lineMarksDecimal ==
    <<"M", "a", "r", "k", "s", ":", " ", "3", ".", "5">>

lineMarksNone ==
    <<"M", "a", "r", "k", "s", ":", " ", "n", "o", "n", "e">>

linePointsOf ==
    <<"P", "o", "i", "n", "t", "s", ":", " ", "1", "2", " ", "o", "f", " ", "2", "0">>

lineScorePadded ==
    <<"s", "c", "o", "r", "e", " ", "0", "0", "7", " ", "p", "t", "s">>

lineMarksPart ==
    <<"M", "a", "r", "k", "s", " ", "(", "p", "a", "r", "t", " ", "2", ")", ":", " ", "5">>

NumericLines ==
    {lineMarks, lineScore, lineMarksDecimal, lineMarksNone, linePointsOf,
     lineScorePadded, lineMarksPart}

\* a question line followed by a marks line, processed as Marking
MarksLineCalls ==
    {[src |-> Source("text", "bare", <<>>, <<lineQ1, line>>), otype |-> sMarking] :
        line \in NumericLines}

\* lines for the frame, letter-case and carry-over behaviour of the fallback
\* parsers
lineBlank ==
    <<" ", " ">>

lineAnswerScore ==
    <<"A", "n", "s", "w", "e", "r", ":", " ", "s", "c", "o", "r", "e", " ",
      "4">>

lineQuestionUpper ==
    <<"Q", "U", "E", "S", "T", "I", "O", "N", ":", " ", "Q", "4">>

lineQuotedQuestionCap ==
    <<"\"", "Q", "u", "e", "s", "t", "i", "o", "n", "\"", ":", " ", "\"",
      "Q", "4", "\"", ",">>

lineQuotedQuestionUpper ==
    <<"\"", "Q", "U", "E", "S", "T", "I", "O", "N", "\"", ":", " ", "\"",
      "Q", "4", "\"", ",">>

lineQuestionQ4 ==
    <<"Q", "u", "e", "s", "t", "i", "o", "n", ":", " ", "Q", "4">>

lineAnswerUpper ==
    <<"A", "N", "S", "W", "E", "R", ":", " ", "4">>

lineQuotedAnswer ==
    <<"\"", "a", "n", "s", "w", "e", "r", "\"", ":", " ", "\"", "4", "\"",
      ",">>

lineQuotedAnswerCap ==
    <<"\"", "A", "n", "s", "w", "e", "r", "\"", ":", " ", "\"", "4", "\"",
      ",">>

lineDiagramUpper ==
    <<"D", "I", "A", "G", "R", "A", "M", ":", " ", "D", "1">>

lineQuotedDiagramCap ==
    <<"\"", "D", "i", "a", "g", "r", "a", "m", "_", "O", "r", "_", "E", "q",
      "u", "a", "t", "i", "o", "n", "\"", ":", " ", "\"", "D", "1", "\"">>

lineMarksUpper ==
    <<"M", "A", "R", "K", "S", ":", " ", "5">>

lineQuotedMarksCap ==
    <<"\"", "M", "a", "r", "k", "s", "_", "A", "w", "a", "r", "d", "e", "d",
      "\"", ":", " ", "5">>

lineQuestionEmpty ==
    <<"Q", "u", "e", "s", "t", "i", "o", "n", ":">>

lineAnswerB ==
    <<"A", "n", "s", "w", "e", "r", ":", " ", "B">>

TextCall(lines, output_type) ==
    [src |-> Source("text", "bare", <<>>, lines), otype |-> output_type]

\* a line of another schema, of no schema, or a blank one, between two
\* lines of the active schema
FrameCalls ==
    {TextCall(<<lineQuestion, x, lineAnswer>>, sRestructure) :
        x \in {lineMarks, lineScore, lineNoise, lineBlank}}
    \cup {TextCall(<<lineQ1, x, lineMarks>>, sMarking) :
        x \in {lineAnswer, lineDiagram, lineAnswerScore, lineNoise, lineBlank}}

\* the labels in their bare-word and quoted forms, in several letter cases
QuestionForms ==
    {lineQuestionQ4, lineQuestionUpper, lineQuotedQuestion, lineQuotedQuestionCap,
     lineQuotedQuestionUpper}

AnswerForms == {lineAnswer, lineAnswerUpper, lineQuotedAnswer, lineQuotedAnswerCap}

DiagramForms == {lineDiagram, lineDiagramUpper, lineQuotedDiagramCap}

MarksForms == {lineMarks, lineMarksUpper, lineQuotedMarksCap}

CaseCalls ==
    {TextCall(<<q, lineAnswer, lineDiagram>>, sRestructure) : q \in QuestionForms}
    \cup {TextCall(<<lineQuestionQ4, a, d>>, sRestructure) :
            a \in AnswerForms, d \in DiagramForms}
    \cup {TextCall(<<q, m>>, sMarking) : q \in QuestionForms, m \in MarksForms}

\* values set before the first question line that has a value, and a second
\* question behind it
CarryCalls ==
    {TextCall(ls, sRestructure) :
        ls \in {<<lineAnswer, lineDiagram, lineQuestion, lineQ1>>,
                <<lineQuestionEmpty, lineAnswer, lineQuestion, lineQ1>>,
                <<lineAnswer, lineQuestion, lineAnswerB, lineQ1>>,
                <<lineQuestion, lineAnswer, lineDiagram, lineQ1>>}}
    \cup {TextCall(ls, sMarking) :
        ls \in {<<lineMarks, lineQ1, lineQuotedQuestion>>,
                <<lineQuestionEmpty, lineMarks, lineQ1, lineQuotedQuestion>>,
                <<lineMarks, lineQ1, lineScore, lineQuotedQuestion>>,
                <<lineQ1, lineMarks, lineQuotedQuestion>>}}

(***************************************************************************)
(* The state: one caller of the tool.  raw and otype are the arguments of  *)
(* the next (or last) call of _run, src describes the agent output the     *)
(* first call was given; cleaned, out and path are what the last call      *)
(* computed (path: "json", "text" or "error"); prev is the string the call *)
(* before it returned; calls counts the calls made.                        *)
(***************************************************************************)
VARIABLES src, otype, raw, pc, cleaned, out, path, prev, calls,
          answer_content, json_data, strategy,
          stage, inputs, events, accepted, ret

\* the state of a run of the validator tool, and of a run of the extractor
toolVars == <<src, otype, raw, pc, cleaned, out, path, prev, calls>>

extractorVars == <<answer_content, json_data, strategy>>

\* the state of a run of run_restructure: the step it is at, the inputs
\* gathered for the agent, the requests and agent runs made so far, the
\* storage operations the persistence collaborator has accepted, and the
\* triple returned
pipelineVars == <<stage, inputs, events, accepted, ret>>

vars == <<toolVars, extractorVars, pipelineVars>>

\* no run of run_restructure is modelled
PipelineUnused ==
    /\ stage = "unused"
    /\ inputs = <<>>
    /\ events = <<>>
    /\ accepted = {}
    /\ ret = Running

Init ==
    /\ \E c \in QACalls \cup MarkingCalls \cup QuestionAnswerCalls \cup MarksLineCalls
                \cup FrameCalls \cup CaseCalls \cup CarryCalls :
          /\ src = c.src
          /\ otype = c.otype
          /\ raw = Render(c.src)
    /\ pc = "idle"
    /\ cleaned = <<>>
    /\ out = <<>>
    /\ path = "none"
    /\ prev = <<>>
    /\ calls = 0
    /\ answer_content = <<>>
    /\ json_data = <<>>
    /\ strategy = "unused"
    /\ PipelineUnused

\* a call of JSONStructureValidatorTool._run(raw, otype)
Invoke ==
    /\ pc = "idle"
    /\ cleaned' = CleanRawOutput(raw)
    /\ \E r \in {RunTrace(raw, otype)} :
            /\ out' = r.out
            /\ path' = r.path
    /\ prev' = out
    /\ calls' = calls + 1
    /\ pc' = "returned"
    /\ UNCHANGED <<src, otype, raw>>
    /\ UNCHANGED extractorVars
    /\ UNCHANGED pipelineVars

\* the caller hands the returned string back to the tool under the same type
Refeed ==
    /\ pc = "returned"
    /\ calls < MaxCalls
    /\ raw' = out
    /\ pc' = "idle"
    /\ UNCHANGED <<src, otype, cleaned, out, path, prev, calls>>
    /\ UNCHANGED extractorVars
    /\ UNCHANGED pipelineVars

Next == Invoke \/ Refeed

Spec == Init /\ [][Next]_vars

(***************************************************************************)
(* The extractor of test.py as a state machine of its own: one answer      *)
(* text is chosen and extract_json_from_text is called on it once.  The    *)
(* answers explored are up to MaxParts pieces written one after another:   *)
(* prose, objects nested one, two and three deep, a malformed object,      *)
(* arrays, a scalar, and fenced blocks.                                    *)
(***************************************************************************)
pProse == <<"s", "e", "e", " ", "t", "h", "i", "s">>

pObject1 == <<"{", "\"", "a", "\"", ":", "1", "}">>

pObject2 ==
    <<"{", "\"", "a", "\"", ":", "{", "\"", "b", "\"", ":", "1", "}", "}">>

pObject3 ==
    <<"{", "\"", "a", "\"", ":", "{", "\"", "b", "\"", ":", "{", "\"", "c",
      "\"", ":", "1", "}", "}", "}">>

pBroken == <<"{", "\"", "a", "\"", ":", "}">>

pArray1 == <<"[", "{", "\"", "a", "\"", ":", "1", "}", "]">>

pArray2 ==
    <<"[", " ", "{", "\"", "b", "\"", ":", "2", "}", ",", "\n", "{", "\"",
      "a", "\"", ":", "1", "}", " ", "]">>

pEmptyArray == <<"[", "]">>

pScalar == <<"5">>

pFencedArray ==
    <<BackQuote, BackQuote, BackQuote, "j", "s", "o", "n", "\n", "[", "{",
      "\"", "b", "\"", ":", "2", "}", "]", "\n", BackQuote, BackQuote,
      BackQuote>>

pFencedObject ==
    <<BackQuote, BackQuote, BackQuote, "j", "s", "o", "n", " ", "\n", "\n",
      " ", "{", "\"", "b", "\"", ":", "2", "}", " ", "\n", " ", BackQuote,
      BackQuote, BackQuote>>

pFencedProse ==
    <<BackQuote, BackQuote, BackQuote, "j", "s", "o", "n", "\n", "o", "o",
      "p", "s", "\n", BackQuote, BackQuote, BackQuote>>

pFencedEmpty ==
    <<BackQuote, BackQuote, BackQuote, "j", "s", "o", "n", "\n", "\n",
      BackQuote, BackQuote, BackQuote>>

Pieces ==
    {pProse, pObject1, pObject2, pObject3, pBroken, pArray1, pArray2,
     pEmptyArray, pScalar, pFencedArray, pFencedObject, pFencedProse,
     pFencedEmpty}

RECURSIVE JoinParts(_)
\* the pieces written one after another, a space between two of them
JoinParts(parts) ==
    IF Len(parts) = 0 THEN <<>>
    ELSE IF Len(parts) = 1 THEN parts[1]
    ELSE parts[1] \o <<" ">> \o JoinParts(Tail(parts))

Answers ==
    {JoinParts(parts) : parts \in UNION {[1..n -> Pieces] : n \in 1..MaxParts}}

ExtractorInit ==
    /\ answer_content \in Answers
    /\ json_data = <<>>
    /\ strategy = "idle"
    /\ src = <<>>
    /\ otype = <<>>
    /\ raw = <<>>
    /\ pc = "unused"
    /\ cleaned = <<>>
    /\ out = <<>>
    /\ path = "none"
    /\ prev = <<>>
    /\ calls = 0
    /\ PipelineUnused

\* json_data = self.extract_json_from_text(answer_content)
ExtractJson ==
    /\ strategy = "idle"
    /\ \E r \in {ExtractJsonFromText(answer_content)} :
            /\ json_data' = r.data
            /\ strategy' = r.method
    /\ UNCHANGED answer_content
    /\ UNCHANGED toolVars
    /\ UNCHANGED pipelineVars

ExtractorNext == ExtractJson

ExtractorSpec == ExtractorInit /\ [][ExtractorNext]_vars

(***************************************************************************)
(* run_restructure as a state machine of its own: one run, a step per      *)
(* request to a collaborator.  Each step draws the collaborator's answer   *)
(* from Responses (the agent's from AgentOutcomes) and carries the code    *)
(* on to the next request or to the return.                                *)
(***************************************************************************)
Responses ==
    {Response(TRUE, 0, "none", "none"), Response(FALSE, 500, "error_text", "none")}
    \cup {Response(FALSE, 200, body, "none") :
            body \in {"records", "empty_list", "empty_map", "items_not_maps"}}
    \cup {Response(FALSE, 200, "not_json", decode) :
            decode \in {"ValueError", "RequestException"}}

AgentOutcomes == {"result", "RuntimeError"}

\* the collaborator answered the request with status 200
Accepts(resp) == ~resp.exc /\ resp.status = 200

PipelineInit ==
    /\ stage = "ocr"
    /\ inputs = [answersheet |-> "None", context |-> "None",
                 vlmdesc |-> "None", mcq |-> "None"]
    /\ events = <<>>
    /\ accepted = {}
    /\ ret = Running
    /\ src = <<>>
    /\ otype = <<>>
    /\ raw = <<>>
    /\ pc = "unused"
    /\ cleaned = <<>>
    /\ out = <<>>
    /\ path = "none"
    /\ prev = <<>>
    /\ calls = 0
    /\ answer_content = <<>>
    /\ json_data = <<>>
    /\ strategy = "unused"

\* "return ..." of run_restructure
Return(triple) ==
    /\ ret' = triple
    /\ stage' = "returned"
    /\ UNCHANGED inputs

\* "except Exception as e: return False, f"Error: {str(e)}", None"
Except(exception) == Return(Failure("Error: " \o exception))

\* the step that fetches the answer sheet
FetchOcr ==
    /\ stage = "ocr"
    /\ events' = Append(events, "ocr")
    /\ \E resp \in Responses : \E o \in {GetAnswersheetFromOcr(resp)} :
          IF o.raised # "" THEN Except(o.raised)
          ELSE IF o.error # "None" THEN Return(Failure(o.error))
          ELSE IF Falsy(o.value) THEN Return(Failure("No answer sheet data found"))
          ELSE /\ inputs' = [inputs EXCEPT !.answersheet = o.value]
               /\ stage' = "vlmdesc"
               /\ UNCHANGED ret
    /\ UNCHANGED accepted
    /\ UNCHANGED <<toolVars, extractorVars>>

\* the step that fetches the VLM description
FetchVlmdesc ==
    /\ stage = "vlmdesc"
    /\ events' = Append(events, "vlmdesc")
    /\ \E resp \in Responses : \E o \in {GetVlmdescData(resp)} :
          IF o.raised # "" THEN Except(o.raised)
          ELSE /\ inputs' = [inputs EXCEPT
                                !.vlmdesc = IF o.error # "None" THEN "{}" ELSE o.value]
               /\ stage' = "mcq"
               /\ UNCHANGED ret
    /\ UNCHANGED accepted
    /\ UNCHANGED <<toolVars, extractorVars>>

\* the step that fetches the MCQ data
FetchMcq ==
    /\ stage = "mcq"
    /\ events' = Append(events, "mcq")
    /\ \E resp \in Responses : \E o \in {GetMcqData(resp)} :
          IF o.raised # "" THEN Except(o.raised)
          ELSE /\ inputs' = [inputs EXCEPT
                                !.mcq = IF o.error # "None" THEN "{}" ELSE o.value]
               /\ stage' = "rubrics"
               /\ UNCHANGED ret
    /\ UNCHANGED accepted
    /\ UNCHANGED <<toolVars, extractorVars>>

\* the step that fetches the rubrics
FetchRubrics ==
    /\ stage = "rubrics"
    /\ events' = Append(events, "rubrics")
    /\ \E resp \in Responses : \E o \in {GetRubricsFromKeyocr(resp)} :
          IF o.raised # "" THEN Except(o.raised)
          ELSE IF o.error # "None" THEN Return(Failure(o.error))
          ELSE IF Falsy(o.value) THEN Return(Failure("No rubrics found"))
          ELSE /\ inputs' = [inputs EXCEPT !.context = o.value]
               /\ stage' = "kickoff"
               /\ UNCHANGED ret
    /\ UNCHANGED accepted
    /\ UNCHANGED <<toolVars, extractorVars>>

\* Restructure().crew().kickoff(inputs=inputs) and the formatting of its
\* result, which cannot fail
Kickoff ==
    /\ stage = "kickoff"
    /\ events' = Append(events, "kickoff")
    /\ \E outcome \in AgentOutcomes :
          IF outcome # "result" THEN Except(outcome)
          ELSE /\ stage' = "save"
               /\ UNCHANGED <<inputs, ret>>
    /\ UNCHANGED accepted
    /\ UNCHANGED <<toolVars, extractorVars>>

\* save_result_to_database and, when it succeeded, the return
Save ==
    /\ stage = "save"
    /\ events' = Append(events, "post")
    /\ \E resp \in Responses :
          /\ accepted' = IF Accepts(resp) THEN accepted \cup {"post"} ELSE accepted
          /\ IF SaveResultToDatabase(resp).success
             THEN Return(Success("created", "None"))
             ELSE /\ stage' = "update"
                  /\ UNCHANGED <<inputs, ret>>
    /\ UNCHANGED <<toolVars, extractorVars>>

\* the GET of update_result_in_database
UpdateLookup ==
    /\ stage = "update"
    /\ events' = Append(events, "get")
    /\ \E resp \in Responses : \E l \in {LookupResult(resp)} :
          IF l.found
          THEN /\ stage' = "put"
               /\ UNCHANGED <<inputs, ret>>
          ELSE Return(Success("failed", l.error))
    /\ UNCHANGED accepted
    /\ UNCHANGED <<toolVars, extractorVars>>

\* the PUT of update_result_in_database, and the return
UpdatePut ==
    /\ stage = "put"
    /\ events' = Append(events, "put")
    /\ \E resp \in Responses : \E u \in {UpdateResultInDatabase(resp)} :
          /\ accepted' = IF Accepts(resp) THEN accepted \cup {"put"} ELSE accepted
          /\ IF u.success
             THEN Return(Success("updated", "None"))
             ELSE Return(Success("failed", u.error))
    /\ UNCHANGED <<toolVars, extractorVars>>

PipelineNext ==
    \/ FetchOcr
    \/ FetchVlmdesc
    \/ FetchMcq
    \/ FetchRubrics
    \/ Kickoff
    \/ Save
    \/ UpdateLookup
    \/ UpdatePut

PipelineSpec == PipelineInit /\ [][PipelineNext]_vars

(***************************************************************************)
(* Vocabulary of the properties.                                           *)
(***************************************************************************)
\* the call was made under one of the two schemas, in any letter case
KnownType == Lower(otype) \in {sRestructure, sMarking}

\* the first call of _run has returned
FirstReturn == pc = "returned" /\ calls = 1

\* r, the answer of json.loads, is a JSON array
IsJsonArray(r) == r.ok /\ r.val.t = "list"

\* the elements of the array r, <<>> when r is not an array
ListKids(r) == IF IsJsonArray(r) THEN r.val.kids ELSE <<>>

\* the records a returned string holds
RecordsOf(text) == ListKids(JsonLoads(text))

\* recs is one record whose question is "Error in processing"
IsErrorArray(recs) ==
    /\ Len(recs) = 1
    /\ recs[1].t = "dict"
    /\ HasKey(recs[1], kQuestion)
    /\ GetKey(recs[1], kQuestion) = VStr(sErrorInProcessing)

\* the fallback parser of the schema finds no record in text
NoRecords(text) ==
    IF Lower(otype) = sRestructure
    THEN RestructureRecords(text) = <<>>
    ELSE MarkingRecords(text) = <<>>

\* no JSON is parsed from the cleaned text and the fallback parser finds nothing
TotalFailure ==
    /\ pc = "returned"
    /\ KnownType
    /\ ~JsonLoads(cleaned).ok
    /\ NoRecords(cleaned)

\* the input is a JSON array of well-formed records of the schema of the call
WellFormedSource ==
    /\ src.kind = "array"
    /\ \A i \in 1..Len(src.items) :
          src.items[i] \in (IF otype = sRestructure THEN WellFormedQA ELSE WellFormedMarking)

(***************************************************************************)
(* C1                                                                      *)
(***************************************************************************)
\* C1: for every raw_output and every output_type that is restructure or
\* marking in any letter case, _run returns (it raises nothing) and the
\* returned string parses as a JSON array: never null, a bare object or a
\* scalar.
C1_ReturnsJsonArray ==
    (pc = "returned" /\ KnownType) => IsJsonArray(JsonLoads(out))

\* a marking call ended in the except block of _run and returned an array
C1_Witness ==
    /\ pc = "returned"
    /\ Lower(otype) = sMarking
    /\ path = "error"
    /\ IsJsonArray(JsonLoads(out))

(***************************************************************************)
(* C2                                                                      *)
(***************************************************************************)
\* C2 as stated: when no JSON can be parsed from the cleaned text and the
\* fallback parser produces zero records (the empty input among them), the
\* output is a one-element array whose question is "Error in processing".
C2_TotalFailureYieldsErrorRecord ==
    TotalFailure => IsErrorArray(RecordsOf(out))

\* C2 amended: when no JSON can be parsed from the cleaned text and the
\* fallback parser produces zero records (the empty input among them), the
\* output is the empty array [] written by the fallback parser; no error
\* record is produced.
C2_TotalFailureYieldsEmptyArray ==
    TotalFailure => (out = <<"[", "]">> /\ path = "text")

\* the empty input has been processed and [] came back
C2_Witness ==
    /\ TotalFailure
    /\ raw = <<>>
    /\ out = <<"[", "]">>

(***************************************************************************)
(* C3, C4, C5                                                              *)
(***************************************************************************)
\* C3: a well-formed array of records of a schema, JSON-encoded and passed
\* through cleaning, parsing and normalization, comes back as the same
\* records, with equal field values and in the same order.
C3_RoundTrip ==
    (FirstReturn /\ WellFormedSource /\ src.wrap = "bare")
        => RecordsOf(out) = src.items

\* C4: a well-formed array of QA records inside a json markdown fence,
\* processed as restructure, yields exactly the records of that array.
C4_FenceTolerance ==
    (FirstReturn /\ WellFormedSource /\ src.wrap = "fence" /\ otype = sRestructure)
        => RecordsOf(out) = src.items

\* C5: a well-formed array of Marking records between bracket-free prose,
\* processed as marking, yields exactly the records of the embedded array.
C5_ProseWrapped ==
    (FirstReturn /\ WellFormedSource /\ src.wrap = "prose" /\ otype = sMarking)
        => RecordsOf(out) = src.items

(***************************************************************************)
(* C6                                                                      *)
(***************************************************************************)
\* C6: the string _run returned, given to _run again under the same
\* output_type, returns an equivalent result: the same records with the same
\* field values in the same order.
C6_Idempotent ==
    (pc = "returned" /\ calls >= 2) => RecordsOf(out) = RecordsOf(prev)

(***************************************************************************)
(* C7                                                                      *)
(***************************************************************************)
\* the first position of '[' or '{', whichever occurs earliest; -1 if neither
FirstOpening(text) ==
    IF Find(text, "[") = -1 THEN Find(text, "{")
    ELSE IF Find(text, "{") = -1 THEN Find(text, "[")
    ELSE IF Find(text, "[") <= Find(text, "{") THEN Find(text, "[")
    ELSE Find(text, "{")

\* text from its first opening bracket on
CutAtFirstOpening(text) ==
    IF FirstOpening(text) # -1 THEN SliceFrom(text, FirstOpening(text)) ELSE text

\* C7: cleaning removes everything before the first occurrence of '[' or '{',
\* whichever is earliest, and everything after the last ']' or '}'; a text
\* without an opening bracket is unchanged up to whitespace trimming.
C7_TrimsAtFirstOpening ==
    pc = "returned"
        => cleaned = Strip(CutEnd(CutAtFirstOpening(RemoveFences(raw))))

(***************************************************************************)
(* Vocabulary of the properties of Marking normalization.                  *)
(***************************************************************************)
\* the call has returned Marking records
MarkingReturn == pc = "returned" /\ Lower(otype) # sRestructure

\* the first call was given one JSON object, src.items[1], under marking
ObjectSource == FirstReturn /\ Lower(otype) = sMarking /\ src.kind = "object"

\* the value the source object holds under key
SourceValue(key) ==
    IF HasKey(src.items[1], key) THEN GetKey(src.items[1], key) ELSE Absent

\* the positions in MarksKeys of the keys the source object holds
PresentMarksKeys == {k \in 1..Len(MarksKeys) : HasKey(src.items[1], MarksKeys[k])}

\* the marks_awarded values of records
MarksOf(recs) ==
    [i \in 1..Len(recs) |->
        IF recs[i].t = "dict" /\ HasKey(recs[i], kMarksAwarded)
        THEN GetKey(recs[i], kMarksAwarded)
        ELSE Absent]

AllIntegers(ms) == \A i \in 1..Len(ms) : ms[i].t = "int"

AllNonNegative(ms) == \A i \in 1..Len(ms) : ms[i].t = "int" /\ ms[i].n >= 0

\* Python's int() of the texts explored: an integer literal with optional
\* sign and surrounding whitespace has its value; the other texts raise
\* ValueError, written here as the 0 the normalization falls back to
IntOfText(s) ==
    CASE s = t7 -> 7
      [] s = tPad12 -> 12
      [] s = tMinus3 -> -3
      [] s = t7points -> 0
      [] s = tX -> 0

\* a source value that int() rejects with ValueError or TypeError
Unparsable(v) ==
    \/ v.t \in {"NoneType", "nan"}
    \/ v.t = "str" /\ v.s \in {t7points, tX}

(***************************************************************************)
(* C8                                                                      *)
(***************************************************************************)
\* C8 as stated: in every Marking record emitted by any path, marks_awarded
\* is an integer >= 0; a negative or unparsable source value becomes 0.
C8_MarksNeverNegative ==
    MarkingReturn => AllNonNegative(MarksOf(RecordsOf(out)))

\* the amended contract on the marks ms of the records returned
MarksContract(ms) ==
    /\ AllIntegers(ms)
    /\ path \in {"text", "error"} => AllNonNegative(ms)
    /\ (ObjectSource /\ path = "json" /\ SourceValue(kMarksAwarded).t = "int")
          => ms = <<SourceValue(kMarksAwarded)>>
    /\ (/\ ObjectSource
        /\ path = "json"
        /\ PresentMarksKeys # {}
        /\ \A k \in PresentMarksKeys : Unparsable(SourceValue(MarksKeys[k])))
          => ms = <<VInt(0)>>

\* C8 amended: in every Marking record emitted by any path, marks_awarded is
\* an integer; it is >= 0 on the fallback text parser and error record
\* paths, and an object whose marks values are all unparsable gets 0; a
\* negative integer under marks_awarded of a parsed JSON object is kept as
\* it is (-3 yields -3).
C8_MarksAreIntegers ==
    MarkingReturn => MarksContract(MarksOf(RecordsOf(out)))

\* the object {"question": "Q2", "marks_awarded": -3, ...} came back with -3
C8_Witness ==
    /\ ObjectSource
    /\ path = "json"
    /\ SourceValue(kMarksAwarded) = VInt(-3)
    /\ MarksOf(RecordsOf(out)) = <<VInt(-3)>>

(***************************************************************************)
(* C9                                                                      *)
(***************************************************************************)
\* the source object holds exactly one marks key, and text under it
SoleTextualValue ==
    /\ ObjectSource
    /\ path = "json"
    /\ Cardinality(PresentMarksKeys) = 1
    /\ \A k \in PresentMarksKeys : SourceValue(MarksKeys[k]).t = "str"

\* that text
SoleText == SourceValue(MarksKeys[CHOOSE k \in PresentMarksKeys : TRUE]).s

\* C9 as stated: in Marking normalization of a parsed JSON object a textual
\* value under a candidate marks key is coerced with the NumericExtractor
\* rule, the first run of decimal digits: "7 points" yields 7.
C9_TextCoercedByFirstDigits ==
    SoleTextualValue
        => MarksOf(RecordsOf(out)) = <<VInt(DigitsToInt(ExtractNumericValue(SoleText)))>>

\* C9 amended: in Marking normalization of a parsed JSON object a textual
\* value under a candidate marks key is coerced with int(): the text of an
\* integer literal yields its value ("7" yields 7, " 12 " yields 12, "-3"
\* yields -3), any other text is not coercible, so the element
\* {"question": "Q2", "score": "7 points"} yields marks_awarded = 0.
C9_TextCoercedByInt ==
    SoleTextualValue => MarksOf(RecordsOf(out)) = <<VInt(IntOfText(SoleText))>>

\* the object {"question": "Q2", "score": "7 points"} came back with 0
C9_Witness ==
    /\ SoleTextualValue
    /\ HasKey(src.items[1], kScore)
    /\ SoleText = t7points
    /\ MarksOf(RecordsOf(out)) = <<VInt(0)>>

(***************************************************************************)
(* C10                                                                     *)
(***************************************************************************)
\* a source value that can be converted to an integer
Coercible(v) ==
    \/ v.t \in {"int", "bool", "float"}
    \/ v.t = "str" /\ v.s \in {t7, tPad12, tMinus3}

\* the integer a coercible value converts to
CoercedValue(v) == IF v.t = "str" THEN IntOfText(v.s) ELSE v.n

\* the positions of the keys that are present and coercible
CoercibleKeys == {k \in PresentMarksKeys : Coercible(SourceValue(MarksKeys[k]))}

\* the value of the first key, in the order of MarksKeys, that is present
\* and coercible; 0 when there is none
ExpectedMarks ==
    IF CoercibleKeys = {} THEN 0
    ELSE CoercedValue(SourceValue(
            MarksKeys[CHOOSE k \in CoercibleKeys : \A j \in CoercibleKeys : k <= j]))

\* C10: the candidate keys are consulted in the order marks_awarded, marks,
\* score, points; marks_awarded of the emitted record is the coerced value
\* of the first key in that order that is present and coercible (an earlier
\* key that is present but not coercible does not block a later one), and 0
\* when no candidate key is present or none is coercible.
C10_FirstCoercibleKey ==
    ObjectSource => MarksOf(RecordsOf(out)) = <<VInt(ExpectedMarks)>>

(***************************************************************************)
(* C11                                                                     *)
(***************************************************************************)
\* the value item holds under key
ItemValue(item, key) == IF HasKey(item, key) THEN GetKey(item, key) ELSE Absent

\* the elements of items that are key-value maps
MapsOf(items) == SelectSeq(items, LAMBDA e : e.t = "dict")

\* the positions of the marks keys of item that are present and coercible
CoercibleKeysOf(item) ==
    {k \in 1..Len(MarksKeys) : Coercible(ItemValue(item, MarksKeys[k]))}

\* the marks of item: the value of its first coercible key, 0 without one
ExpectedMarksOf(item) ==
    IF CoercibleKeysOf(item) = {} THEN 0
    ELSE CoercedValue(ItemValue(item,
            MarksKeys[CHOOSE k \in CoercibleKeysOf(item) :
                          \A j \in CoercibleKeysOf(item) : k <= j]))

\* the Marking records of the maps ms, each with its own question and marks
ExpectedMarkingRecords(ms) ==
    [i \in 1..Len(ms) |->
        MarkingItem(ItemValue(ms[i], kQuestion).s, ExpectedMarksOf(ms[i]))]

\* the first call was given a JSON array and json.loads has parsed it
ArrayParsed ==
    /\ FirstReturn
    /\ src.kind = "array"
    /\ IsJsonArray(JsonLoads(cleaned))

\* C11: in Marking normalization of a parsed JSON array, an element whose
\* marks value cannot be converted to an integer (a non-numeric string,
\* null, NaN, an infinite number) is still emitted with marks_awarded = 0,
\* the other elements are emitted unaffected, and no error record replaces
\* the output.
C11_CoercionFailureAbsorbed ==
    (ArrayParsed /\ otype = sMarking)
        => RecordsOf(out) = ExpectedMarkingRecords(MapsOf(src.items))

(***************************************************************************)
(* C12                                                                     *)
(***************************************************************************)
\* rec holds question, answer and diagram_or_equation, each a string
IsQARecord(rec) ==
    /\ rec.t = "dict"
    /\ \A k \in {kQuestion, kAnswer, kDiagramOrEquation} :
          HasKey(rec, k) /\ GetKey(rec, k).t = "str"

AllQARecords(recs) == \A i \in 1..Len(recs) : IsQARecord(recs[i])

\* C12: in every record emitted under the QA schema by any path (JSON
\* normalization, fallback text parser, error record) the fields question,
\* answer and diagram_or_equation are all present and each is a string,
\* whatever JSON types the source values had and whichever fields were
\* absent.
C12_QAFieldsAreStrings ==
    (pc = "returned" /\ Lower(otype) = sRestructure) => AllQARecords(RecordsOf(out))

\* a record came back with three strings for {"question": 5, "answer": null,
\* "diagram_or_equation": 2.5}
NullAnswerAsText(recs) ==
    /\ Len(recs) = 1
    /\ IsQARecord(recs[1])
    /\ GetKey(recs[1], kAnswer) = VStr(sPyNone)

C12_Witness ==
    /\ FirstReturn
    /\ Lower(otype) = sRestructure
    /\ path = "json"
    /\ src.kind = "object"
    /\ ItemValue(src.items[1], kAnswer) = VNone
    /\ NullAnswerAsText(RecordsOf(out))

FallbackLines == SplitLines(cleaned)

\* the current record at schema defaults
DefaultItem ==
    IF Lower(otype) = sRestructure THEN QAItem(<<>>, <<>>, <<>>) ELSE MarkingItem(<<>>, 0)

\* result and current record after the first n lines
LoopAfter(n) ==
    IF Lower(otype) = sRestructure
    THEN RestructureLoop(LoopState(<<>>, DefaultItem), SubSeq(FallbackLines, 1, n), 1)
    ELSE MarkingLoop(LoopState(<<>>, DefaultItem), SubSeq(FallbackLines, 1, n), 1)

\* the question of a record is non-empty
QuestionNonEmpty(rec) == GetKey(rec, kQuestion).s # <<>>

\* line i is a question line
QuestionLineAt(i) ==
    Strip(FallbackLines[i]) # <<>> /\ IsQuestionLine(Strip(FallbackLines[i]))

\* what a question line does to the loop state
QuestionLineEffect(before, after, line) ==
    IF QuestionNonEmpty(before.current)
    THEN /\ after.result = Append(before.result, before.current)
         /\ after.current = DictPut(DefaultItem, kQuestion, VStr(ExtractValue(line)))
    ELSE /\ after.result = before.result
         /\ after.current = DictPut(before.current, kQuestion, VStr(ExtractValue(line)))

\* what the end of the input does with the last loop state
EndOfInputEffect(last, recs) ==
    recs = IF QuestionNonEmpty(last.current)
           THEN Append(last.result, last.current)
           ELSE last.result

\* the questions of records
QuestionsOf(recs) == [i \in 1..Len(recs) |-> GetKey(recs[i], kQuestion).s]

\* the values of the question lines, in the order of the lines
QuestionLineValues ==
    LET idx == SelectSeq([i \in 1..Len(FallbackLines) |-> i], LAMBDA i : QuestionLineAt(i))
    IN  [j \in 1..Len(idx) |-> ExtractValue(Strip(FallbackLines[idx[j]]))]

\* every record has a question and the records follow their question lines
FallbackOrder(recs) ==
    /\ \A i \in 1..Len(recs) : QuestionNonEmpty(recs[i])
    /\ QuestionsOf(recs) = SelectSeq(QuestionLineValues, LAMBDA v : v # <<>>)

\* C14: in the fallback parser a question line pushes a copy of the current
\* record if and only if its question is non-empty, resetting the current
\* record to the schema defaults when it does, and then sets the new
\* question; at the end of the input the current record is pushed if and
\* only if its question is non-empty.  So every fallback record has a
\* non-empty question and the records are in the order of their question
\* lines.
C14_FallbackStateMachine ==
    (pc = "returned" /\ path = "text")
        => /\ \A i \in 1..Len(FallbackLines) :
                 QuestionLineAt(i)
                    => QuestionLineEffect(LoopAfter(i - 1), LoopAfter(i),
                                          Strip(FallbackLines[i]))
           /\ EndOfInputEffect(LoopAfter(Len(FallbackLines)), RecordsOf(out))
           /\ FallbackOrder(RecordsOf(out))

\* a question line found a record with a question, and two records came back
C14_Witness ==
    /\ pc = "returned"
    /\ path = "text"
    /\ \E i \in 1..Len(FallbackLines) :
          QuestionLineAt(i) /\ QuestionNonEmpty(LoopAfter(i - 1).current)
    /\ Len(RecordsOf(out)) >= 2

(***************************************************************************)
(* The vocabulary of the claims about extract_json_from_text.              *)
(***************************************************************************)
\* the call of extract_json_from_text has returned
Extracted == strategy \notin {"idle", "unused"}

\* the four strategies in the order of the cascade
StrategyNames == <<"direct", "fenced", "array", "objects">>

\* what strategy k yields on its own for a text
StrategyOutcome(k, text) ==
    CASE k = 1 -> Method1(text)
      [] k = 2 -> Method2(text)
      [] k = 3 -> Method3(text)
      [] k = 4 -> Method4(text)

\* strategy k succeeds on the text and no strategy before it does
FirstSuccess(k, text) ==
    /\ StrategyOutcome(k, text).ok
    /\ \A j \in 1..(k - 1) : ~StrategyOutcome(j, text).ok

\* the whole text, stripped, is one JSON object
WholeTextObject(r) == r.ok /\ r.val.t = "dict"

(***************************************************************************)
(* C15: the strategies are tried in the order whole text, fenced blocks,   *)
(* array matches, object literals; the list returned is exactly the yield  *)
(* of the first strategy that succeeds, whatever a later strategy would    *)
(* have found, and a bare object is returned as a one-element list.        *)
(***************************************************************************)
C15_CascadeOrder ==
    Extracted =>
        /\ \A k \in 1..4 :
              FirstSuccess(k, answer_content) =>
                  /\ strategy = StrategyNames[k]
                  /\ json_data = StrategyOutcome(k, answer_content).data
        /\ \A r \in {JsonLoads(Strip(answer_content))} :
              WholeTextObject(r) => json_data = <<r.val>>

\* a fenced block answered although an array earlier in the text would have
\* been found by the array scan, with other data
C15_Witness ==
    /\ Extracted
    /\ strategy = "fenced"
    /\ Method3(answer_content).ok
    /\ Method3(answer_content).data # json_data
    /\ json_data # <<>>

(***************************************************************************)
(* C16, as claimed: when every strategy fails, what the extractor returns  *)
(* differs from what it returns for the text of an empty JSON array.       *)
(***************************************************************************)
\* what the extractor returns for the text "[]"
EmptyArrayLocated == ExtractJsonFromText(pEmptyArray)

C16_FailureDistinctFromEmptyArray ==
    (Extracted /\ strategy = "none") => json_data # EmptyArrayLocated.data

(***************************************************************************)
(* C16, as the code has it: when every strategy fails the extractor        *)
(* returns the empty list, the very value it returns for the text "[]",    *)
(* which the whole-text parse locates.                                     *)
(***************************************************************************)
C16_FailureIsEmptyList ==
    (Extracted /\ strategy = "none") =>
        /\ json_data = <<>>
        /\ json_data = EmptyArrayLocated.data
        /\ EmptyArrayLocated.method = "direct"

\* every strategy has failed on a text that is not empty
C16_Witness ==
    /\ Extracted
    /\ strategy = "none"
    /\ answer_content # <<>>
    /\ \A k \in 1..4 : ~StrategyOutcome(k, answer_content).ok
    /\ json_data = <<>>

(***************************************************************************)
(* C17: once the object scan is reached, the list returned holds every     *)
(* outermost object literal of the text that parses as JSON, in order of   *)
(* appearance, however deep the braces inside it nest; an inner object     *)
(* never stands in for the object around it.  The outermost literals are   *)
(* found by counting brace depth.                                          *)
(***************************************************************************)
\* the number of characters c of the text between indices a and e
CountOf(text, c, a, e) == Cardinality({k \in a..e : text[k] = c})

\* the braces opened from index a on are all closed again at index e
BalancedAt(text, a, e) ==
    /\ text[e] = "}"
    /\ CountOf(text, "{", a, e) = CountOf(text, "}", a, e)

\* an opening brace at index a whose depth returns to zero later on
OpensLiteral(text, a) ==
    /\ text[a] = "{"
    /\ \E e \in a..Len(text) : BalancedAt(text, a, e)

\* the index where the literal opened at index a closes
LiteralEnd(text, a) == SetMin({e \in a..Len(text) : BalancedAt(text, a, e)})

RECURSIVE TopLevelObjectsFrom(_, _)
\* the outermost object literals from index i on, in order of appearance
TopLevelObjectsFrom(text, i) ==
    IF \E a \in i..Len(text) : OpensLiteral(text, a)
    THEN LET a == SetMin({k \in i..Len(text) : OpensLiteral(text, k)})
         IN <<SubSeq(text, a, LiteralEnd(text, a))>>
                \o TopLevelObjectsFrom(text, LiteralEnd(text, a) + 1)
    ELSE <<>>

\* the object scan was reached: no earlier strategy answered
ObjectScanReached == Extracted /\ strategy \in {"objects", "none"}

C17_TopLevelObjectsCollected ==
    ObjectScanReached =>
        json_data = CollectObjects(TopLevelObjectsFrom(answer_content, 1))

(***************************************************************************)
(* C18                                                                     *)
(***************************************************************************)
\* the question a record written from the map item carries
QuestionText(item) ==
    IF HasKey(item, kQuestion) THEN PyStr(GetKey(item, kQuestion)) ELSE <<>>

\* recs holds one record per map of ms, in the order of ms
OneRecordPerMap(recs, ms) ==
    /\ Len(recs) = Len(ms)
    /\ \A i \in 1..Len(ms) :
          /\ i <= Len(recs)
          /\ recs[i].t = "dict"
          /\ HasKey(recs[i], kQuestion)
          /\ GetKey(recs[i], kQuestion) = VStr(QuestionText(ms[i]))

\* C18: given a parsed JSON array, under either schema the output holds
\* exactly one record per element that is a key-value map, in the order of
\* the input array; elements that are not maps are discarded and leave the
\* other elements as they are.
C18_OneRecordPerMapInOrder ==
    (ArrayParsed /\ KnownType) => OneRecordPerMap(RecordsOf(out), MapsOf(src.items))

(***************************************************************************)
(* C19                                                                     *)
(***************************************************************************)
\* line holds a decimal digit
HasDigit(line) == \E i \in 1..Len(line) : line[i] \in DigitSet

\* a..b is the first maximal run of digits of line: nothing but digits in
\* it, no digit before it, and no digit right behind it
IsFirstDigitRun(line, a, b) ==
    /\ a <= b
    /\ \A i \in a..b : line[i] \in DigitSet
    /\ \A i \in 1..(a - 1) : line[i] \notin DigitSet
    /\ b = Len(line) \/ line[b + 1] \notin DigitSet

\* the text of the first maximal run of digits, "0" for a line without digit
FirstDigitRun(line) ==
    IF ~HasDigit(line) THEN <<"0">>
    ELSE LET ab == CHOOSE ab \in (1..Len(line)) \X (1..Len(line)) :
                        IsFirstDigitRun(line, ab[1], ab[2])
         IN SubSeq(line, ab[1], ab[2])

\* line i of the fallback input is a marks line
MarksLineAt(i) ==
    /\ Strip(FallbackLines[i]) # <<>>
    /\ ~IsQuestionLine(Strip(FallbackLines[i]))
    /\ IsMarksLine(Strip(FallbackLines[i]))

\* the Marking fallback parser has answered the last call
MarkingFallback == pc = "returned" /\ Lower(otype) = sMarking /\ path = "text"

\* the first call was given a question line Q1 followed by one marks line
QuestionThenMarks ==
    /\ FirstReturn
    /\ otype = sMarking
    /\ src.kind = "text"
    /\ Len(src.lines) = 2
    /\ src.lines[1] = lineQ1
    /\ src.lines[2] \in NumericLines

\* C19: for every line _extract_numeric_value returns the first maximal run
\* of decimal digits, scanning left to right, and "0" when the line holds no
\* digit; sign, decimal point and units are ignored, and the fallback
\* Marking parser stores exactly that integer in marks_awarded.
C19_FirstDigitRunStored ==
    /\ MarkingFallback =>
          \A i \in 1..Len(FallbackLines) :
              /\ ExtractNumericValue(Strip(FallbackLines[i]))
                    = FirstDigitRun(Strip(FallbackLines[i]))
              /\ MarksLineAt(i) =>
                    GetKey(LoopAfter(i).current, kMarksAwarded)
                        = VInt(DigitsToInt(FirstDigitRun(Strip(FallbackLines[i]))))
    /\ QuestionThenMarks =>
          RecordsOf(out)
              = <<MarkingItem(<<"Q", "1">>, DigitsToInt(FirstDigitRun(src.lines[2])))>>

\* "Marks: 3.5" was stored as 3 and "Score: -3" would be stored as 3
C19_Witness ==
    /\ QuestionThenMarks
    /\ path = "text"
    /\ src.lines[2] = lineMarksDecimal
    /\ RecordsOf(out) = <<MarkingItem(<<"Q", "1">>, 3)>>
    /\ ExtractNumericValue(lineScore) = <<"3">>
    /\ ExtractNumericValue(lineMarksNone) = <<"0">>

(***************************************************************************)
(* The vocabulary of the claims about run_restructure.                     *)
(***************************************************************************)
\* run_restructure has returned
PipelineReturned == stage = "returned"

\* the create call (POST) and the update call (PUT) have been made
CreateMade == \E i \in 1..Len(events) : events[i] = "post"

UpdateMade == \E i \in 1..Len(events) : events[i] = "put"

\* the agent has been run
AgentRun == \E i \in 1..Len(events) : events[i] = "kickoff"

FallbackReturn == pc = "returned" /\ path = "text" /\ KnownType

QASchema == Lower(otype) = sRestructure

\* line i of the fallback input, stripped as the loop strips it
FallbackLine(i) == Strip(FallbackLines[i])

\* the line holds one of the marks keywords, in any letter case
HoldsMarksKeyword(line) ==
    \E k \in {kMarksAwarded, kMarks, kScore, kPoints} : Contains(Lower(line), k)

\* the line matches a label of the active schema
MatchesActiveLabel(line) ==
    IF QASchema
    THEN IsQuestionLine(line) \/ IsAnswerLine(line) \/ IsDiagramLine(line)
    ELSE IsQuestionLine(line) \/ HoldsMarksKeyword(line)

\* a line the QA schema reads as an answer or a diagram line
AnswerOrDiagramLine(line) ==
    ~IsQuestionLine(line) /\ (IsAnswerLine(line) \/ IsDiagramLine(line))

\* a line that holds a marks keyword and no QA label
MarksOnlyLine(line) ==
    /\ HoldsMarksKeyword(line)
    /\ ~IsQuestionLine(line)
    /\ ~IsAnswerLine(line)
    /\ ~Contains(Lower(line), kDiagram)

\* the lines the claim says have no effect
WithoutEffect(line) ==
    \/ line = <<>>
    \/ ~MatchesActiveLabel(line)
    \/ ~QASchema /\ AnswerOrDiagramLine(line) /\ ~HoldsMarksKeyword(line)
    \/ QASchema /\ MarksOnlyLine(line)

\* the first call was given three lines of text, the middle one without
\* effect under the active schema
MiddleLineWithoutEffect ==
    /\ FirstReturn
    /\ KnownType
    /\ src.kind = "text"
    /\ Len(src.lines) = 3
    /\ WithoutEffect(Strip(src.lines[2]))

\* the records of the first and the last line of the source alone
OuterLinesRecords ==
    IF QASchema
    THEN RestructureRecords(Join(<<src.lines[1], src.lines[3]>>, <<"\n">>))
    ELSE MarkingRecords(Join(<<src.lines[1], src.lines[3]>>, <<"\n">>))

\* C22: in the fallback parsers a blank line and a non-blank line that
\* matches no label of the active schema leave the current record and the
\* result list unchanged.  Labels are schema-exclusive: under Marking a line
\* the QA schema reads as an answer or diagram line changes no field unless
\* it also holds a marks keyword, and under QA a line that holds only a
\* marks keyword changes no field.
C22_UnrecognisedLinesChangeNothing ==
    /\ FallbackReturn =>
          \A i \in 1..Len(FallbackLines) :
              WithoutEffect(FallbackLine(i)) => LoopAfter(i) = LoopAfter(i - 1)
    /\ MiddleLineWithoutEffect => RecordsOf(out) = OuterLinesRecords

\* "Answer: 4" between "Question: Q1" and "Marks: 5" under Marking left the
\* record as it was
C22_Witness ==
    /\ MiddleLineWithoutEffect
    /\ path = "text"
    /\ otype = sMarking
    /\ src.lines = <<lineQ1, lineAnswer, lineMarks>>
    /\ RecordsOf(out) = <<MarkingItem(<<"Q", "1">>, 5)>>

(***************************************************************************)
(* C23                                                                     *)
(***************************************************************************)
\* the first call was given a question line in one of the label forms,
\* followed by a line for each other field of the schema
QuestionFormsSource ==
    /\ FirstReturn
    /\ src.kind = "text"
    /\ KnownType
    /\ src.lines \in IF QASchema
                     THEN QuestionForms \X AnswerForms \X DiagramForms
                     ELSE QuestionForms \X MarksForms

\* every line of such a source was recognised: there is one record, and
\* each of its fields was set by its line
EveryLabelRecognised(recs) ==
    /\ Len(recs) = 1
    /\ GetKey(recs[1], kQuestion).s # <<>>
    /\ IF QASchema
       THEN /\ GetKey(recs[1], kAnswer).s # <<>>
            /\ GetKey(recs[1], kDiagramOrEquation).s # <<>>
       ELSE GetKey(recs[1], kMarksAwarded) = VInt(5)

\* C23: the fallback parsers classify lines without regard to letter case
\* in every label form: a question or answer label is recognised in the
\* bare-word form (Question:, QUESTION:) and in the quoted key form
\* ("question":, "Question":, "QUESTION":), and so are the diagram and marks
\* keywords.
C23_LabelsIgnoreCase ==
    /\ FallbackReturn =>
          \A i \in 1..Len(FallbackLines) :
              /\ IsQuestionLine(FallbackLine(i)) <=> IsQuestionLine(Lower(FallbackLine(i)))
              /\ IsAnswerLine(FallbackLine(i)) <=> IsAnswerLine(Lower(FallbackLine(i)))
              /\ IsDiagramLine(FallbackLine(i)) <=> IsDiagramLine(Lower(FallbackLine(i)))
              /\ IsMarksLine(FallbackLine(i)) <=> IsMarksLine(Lower(FallbackLine(i)))
    /\ QuestionFormsSource => EveryLabelRecognised(RecordsOf(out))

(***************************************************************************)
(* C24                                                                     *)
(***************************************************************************)
\* the fields of the active schema besides the question
ValueFields ==
    IF QASchema THEN {kAnswer, kDiagramOrEquation} ELSE {kMarksAwarded}

\* the value fields of two records agree
SameValues(a, b) == \A k \in ValueFields : GetKey(a, k) = GetKey(b, k)

\* a question line met a current record without question: nothing is
\* dropped, the values set so far stay in the current record
CarriedOver(before, after) ==
    /\ after.result = before.result
    /\ SameValues(after.current, before.current)

\* a question line met a current record with a question: the record is
\* emitted with its values, and the new current record has none of them
StartedAfresh(before, after) ==
    /\ after.result = Append(before.result, before.current)
    /\ SameValues(after.current, DefaultItem)

\* what question line i does with the values set before it
QuestionLineKeepsValues(i) ==
    IF QuestionNonEmpty(LoopAfter(i - 1).current)
    THEN StartedAfresh(LoopAfter(i - 1), LoopAfter(i))
    ELSE CarriedOver(LoopAfter(i - 1), LoopAfter(i))

\* the first call was given text in which values precede the first question
\* that has a value, and a second question follows
ValuesBeforeQuestion ==
    /\ FirstReturn
    /\ KnownType
    /\ src.kind = "text"
    /\ src.lines \in {<<lineAnswer, lineDiagram, lineQuestion, lineQ1>>,
                      <<lineQuestionEmpty, lineAnswer, lineQuestion, lineQ1>>,
                      <<lineAnswer, lineQuestion, lineAnswerB, lineQ1>>,
                      <<lineMarks, lineQ1, lineQuotedQuestion>>,
                      <<lineQuestionEmpty, lineMarks, lineQ1, lineQuotedQuestion>>,
                      <<lineMarks, lineQ1, lineScore, lineQuotedQuestion>>}

\* the value the source gives the first record for a field: that of the last
\* line of its kind before the second question line with a value
FirstRecordValue(key) ==
    CASE key = kAnswer ->
            VStr(IF lineAnswerB \in {src.lines[i] : i \in 1..Len(src.lines)}
                 THEN <<"B">> ELSE <<"4">>)
      [] key = kDiagramOrEquation ->
            VStr(IF lineDiagram \in {src.lines[i] : i \in 1..Len(src.lines)}
                 THEN <<"D", "1">> ELSE <<>>)
      [] key = kMarksAwarded ->
            VInt(IF lineScore \in {src.lines[i] : i \in 1..Len(src.lines)} THEN 3 ELSE 5)

\* the first record holds the values set before its question, the second
\* record none of the first one's
CarriedIntoFirstRecord(recs) ==
    /\ Len(recs) = 2
    /\ \A k \in ValueFields : GetKey(recs[1], k) = FirstRecordValue(k)
    /\ SameValues(recs[2], DefaultItem)

\* C24: in the fallback parsers the values that answer and diagram lines
\* (QA) or marks lines (Marking) set before the first question line with a
\* value are not discarded: they stay in the current record and appear in
\* the first record emitted, unless a later line of the same kind overwrites
\* them; after a reset no value of an emitted record appears in a later one.
C24_ValuesCarriedUntilReset ==
    /\ FallbackReturn =>
          \A i \in 1..Len(FallbackLines) :
              QuestionLineAt(i) => QuestionLineKeepsValues(i)
    /\ ValuesBeforeQuestion => CarriedIntoFirstRecord(RecordsOf(out))

\* "Answer: 4" and "Diagram: D1" ahead of the first question came back in
\* the first record, and the second record is empty but for its question
C24_Witness ==
    /\ ValuesBeforeQuestion
    /\ path = "text"
    /\ src.lines = <<lineAnswer, lineDiagram, lineQuestion, lineQ1>>
    /\ RecordsOf(out)
          = <<QAItem(<<"W", "h", "a", "t", " ", "i", "s", " ", "2", "+", "2", "?">>,
                     <<"4">>, <<"D", "1">>),
              QAItem(<<"Q", "1">>, <<>>, <<>>)>>

(***************************************************************************)
(* C25                                                                     *)
(***************************************************************************)
\* the position of a step in the run so far, 0 when it has not been taken
StepAt(name) ==
    IF \E i \in 1..Len(events) : events[i] = name
    THEN CHOOSE i \in 1..Len(events) : events[i] = name
    ELSE 0

\* the step the run returned from
LastStep == IF events = <<>> THEN "none" ELSE events[Len(events)]

\* the agent is run only with an answer sheet and rubrics in hand
AgentAfterRequiredInputs ==
    AgentRun =>
        /\ 0 < StepAt("ocr") /\ StepAt("ocr") < StepAt("kickoff")
        /\ 0 < StepAt("rubrics") /\ StepAt("rubrics") < StepAt("kickoff")
        /\ ~Falsy(inputs.answersheet)
        /\ ~Falsy(inputs.context)

\* a run that ended at the OCR or the rubrics step failed without agent run
\* and without persistence call
RequiredInputFailureStops ==
    (PipelineReturned /\ LastStep \in {"ocr", "rubrics"}) =>
        /\ ~ret.success
        /\ ret.result = "None"
        /\ ~AgentRun
        /\ ~CreateMade
        /\ StepAt("get") = 0
        /\ ~UpdateMade

\* no run ends at the vlmdesc or the mcq step: with answer sheet and rubrics
\* retrieved the agent is run whatever these two retrievals did
OptionalInputFailureGoesOn ==
    /\ PipelineReturned => LastStep \notin {"vlmdesc", "mcq"}
    /\ AgentRun => inputs.vlmdesc # "None" /\ inputs.mcq # "None"

\* the update is attempted only straight after a create that failed
UpdateAfterFailedCreate ==
    /\ StepAt("get") > 0 => StepAt("post") = StepAt("get") - 1
    /\ StepAt("put") > 0 => StepAt("get") = StepAt("put") - 1
    /\ (PipelineReturned /\ ret.database_operation = "created") => StepAt("get") = 0
    /\ stage = "update" => LastStep = "post"

\* C25: run_restructure runs the agent only after the OCR answer sheet and
\* the rubrics were retrieved without error and non-empty; a failure of
\* either returns (False, message, None) with no agent run and no create or
\* update call; a failure of the vlmdesc or mcq retrieval never prevents the
\* agent run; the update is attempted only after the create has failed.
C25_PipelineOrdering ==
    /\ AgentAfterRequiredInputs
    /\ RequiredInputFailureStops
    /\ OptionalInputFailureGoesOn
    /\ UpdateAfterFailedCreate
=============================================================================
